---- MODULE Spec2Model ----
(***************************************************************************)
(* A model of RogueLike.process_save_file (src/roguelike.py): the record   *)
(* locator, the field resolver, the skill bitfield codec, the budgeted     *)
(* random skill allocation and the final write of the save file.           *)
(*                                                                         *)
(* Numbers that the program keeps as floats with at most two decimals      *)
(* (rates, attribute values) are kept here in hundredths, as integers, and *)
(* computed exactly.                                                       *)
(***************************************************************************)
EXTENDS Integers, Sequences, FiniteSets, TLC

(***************************************************************************)
(* Bounds of the model.                                                    *)
(***************************************************************************)
\* largest pick_limit a configuration of the model sets
MaxPickLimit == 2
\* largest reroll_limit a configuration of the model sets
MaxRerollLimit == 2
\* last_character_number of the model's configurations
LastChar == 2
\* random_extra_attribute_min/max of the model's configurations are -/+ this
RandomExtraSpread == 1
\* the longest configuration file read
MaxConfigLines == 3

(***************************************************************************)
(* Program constants (defaults of RogueLike.__init__, layout constants of  *)
(* process_save_file).  Rates are in hundredths.                           *)
(***************************************************************************)
extra_attribute == 30
str_rate == 150
int_rate == 100
str_random_rate == 100
int_random_rate == 100
exist_attribute_rate == 70
BaseAttribute == 233
StartPosition == 131072
SearchWindow == 1200
RecordStride == 900
PatternLength == 22
SearchTail == 25
PersonalDelta == 652
CommanderDelta == 668
MarshalDelta == 684
StatLow == 0
StatHigh == 1000
Disabled == -1

attribute_thresholds == <<100, 130, 160, 190>>
attribute_rates == <<140, 125, 110, 100, 90>>

SkillTypes == {"marshal", "commander", "personal"}

(***************************************************************************)
(* Small arithmetic helpers.                                               *)
(***************************************************************************)
Min(a, b) == IF a < b THEN a ELSE b
Max(a, b) == IF a > b THEN a ELSE b

RECURSIVE Pow2(_)
Pow2(k) == IF k = 0 THEN 1 ELSE 2 * Pow2(k - 1)

\* (byte & (1 << bit)) != 0
BitSet(byte, bit) == (byte \div Pow2(bit)) % 2 = 1

\* byte | (1 << bit)
OrBit(byte, bit) == IF BitSet(byte, bit) THEN byte ELSE byte + Pow2(bit)

\* Python's int(x) of a value kept in hundredths: truncation toward zero
IntOf(h) == IF h >= 0 THEN h \div 100 ELSE -((-h) \div 100)

RECURSIVE SeqMax(_)
SeqMax(s) == IF Len(s) = 1 THEN s[1] ELSE Max(s[1], SeqMax(Tail(s)))

RECURSIVE SeqSum(_)
SeqSum(s) == IF s = <<>> THEN 0 ELSE s[1] + SeqSum(Tail(s))

Range(s) == {s[i] : i \in DOMAIN s}

(***************************************************************************)
(* A bytearray: its length and its non-zero bytes (every other byte is 0). *)
(***************************************************************************)
Get(buf, i) == IF i \in DOMAIN buf.nz THEN buf.nz[i] ELSE 0

\* buf[i] = b, for 0 <= i < len(buf)
Put(buf, i, b) ==
  [buf EXCEPT !.nz =
     IF b = 0 THEN [j \in (DOMAIN @) \ {i} |-> @[j]]
     ELSE (i :> b) @@ @]

\* buf[a:b] as a sequence of bytes; Python cuts the slice at the end
Slice(buf, a, b) ==
  LET stop == Min(b, buf.len)
  IN  IF stop <= a THEN <<>> ELSE [k \in 1..(stop - a) |-> Get(buf, a + k - 1)]

\* struct.pack('<i', n)[:2]
char_id_bytes(n) == <<n % 256, (n \div 256) % 256>>

\* struct.pack('<i', n) for -2^31 <= n < 2^31 (two's complement, low byte first)
Pack_i(n) ==
  <<n % 256, (n \div 256) % 256, (n \div 65536) % 256, (n \div 16777216) % 256>>

\* struct.unpack('<i', b)[0]; b must hold exactly four bytes
Unpack_i(b) ==
  b[1] + 256 * b[2] + 65536 * b[3]
    + 16777216 * (IF b[4] >= 128 THEN b[4] - 256 ELSE b[4])

MarkShort == <<77, 97, 114, 107, 0>>
MarkLong == <<77, 97, 114, 107, 0, 0, 0, 0, 0>>

(***************************************************************************)
(* SignatureScanner: lines 223-317.                                        *)
(***************************************************************************)
\* a variant of StrictMatch that does not look at the second id
StrictMatchOneId(buf, i, idb) ==
  /\ ~(i + PatternLength > buf.len)
  /\ Slice(buf, i, i + 2) = idb
  /\ Slice(buf, i + 4, i + 9) = MarkShort
  /\ Slice(buf, i + 13, i + 22) = MarkLong

\* the strict template at i (lines 240-261)
StrictMatch(buf, i, idb) ==
  /\ ~(i + PatternLength > buf.len)
  /\ Slice(buf, i, i + 2) = idb
  /\ Slice(buf, i + 4, i + 9) = MarkShort
  /\ Slice(buf, i + 9, i + 11) = idb
  /\ Slice(buf, i + 13, i + 22) = MarkLong

\* a variant of RelaxedMatch that does not ask for a second occurrence of the id
RelaxedMatchOneId(buf, i, idb) ==
  /\ ~(i + PatternLength > buf.len)
  /\ Slice(buf, i, i + 2) = idb
  /\ \/ (i + 4 < buf.len /\ Slice(buf, i + 4, i + 9) = MarkShort)
     \/ (i + 13 < buf.len /\ Slice(buf, i + 13, i + 18) = MarkShort)

\* the relaxed template at i (lines 285-300)
RelaxedMatch(buf, i, idb) ==
  /\ ~(i + PatternLength > buf.len)
  /\ Slice(buf, i, i + 2) = idb
  /\ \/ (i + 4 < buf.len /\ Slice(buf, i + 4, i + 9) = MarkShort)
     \/ (i + 13 < buf.len /\ Slice(buf, i + 13, i + 18) = MarkShort)
  /\ \E j \in (i + 2)..(Min(i + 20, buf.len - 2) - 1) : Slice(buf, j, j + 2) = idb

SetMin(S) == CHOOSE x \in S : \A y \in S : x <= y

\* the offsets of range(lo, hi) whose byte is first; all other bytes of the
\* bytearray are 0
StartsWith(buf, lo, hi, first) ==
  IF first = 0 THEN lo..(hi - 1)
  ELSE {i \in DOMAIN buf.nz : lo <= i /\ i < hi /\ buf.nz[i] = first}

\* for i in range(lo, hi): first i with the strict template, or -1
StrictSearch(buf, lo, hi, idb) ==
  LET hits == {i \in StartsWith(buf, lo, hi, idb[1]) : StrictMatch(buf, i, idb)}
  IN  IF hits = {} THEN -1 ELSE SetMin(hits)

\* for i in range(lo, hi): first i with the relaxed template, or -1
RelaxedSearch(buf, lo, hi, idb) ==
  LET hits == {i \in StartsWith(buf, lo, hi, idb[1]) : RelaxedMatch(buf, i, idb)}
  IN  IF hits = {} THEN -1 ELSE SetMin(hits)

\* a variant of max_search_position that searches to the end for every id
max_search_position_whole(buf, n, pos) == buf.len - SearchTail

\* the end of the range searched for character n (lines 226-234)
max_search_position(buf, n, pos) ==
  IF n = 1 THEN buf.len - SearchTail
  ELSE IF pos + SearchWindow > buf.len - SearchTail THEN buf.len - SearchTail
       ELSE pos + SearchWindow

\* pattern_pos after lines 223-306, -1 when pattern_found is False
FindPattern(buf, n, pos) ==
  LET idb == char_id_bytes(n)
      strict == StrictSearch(buf, pos, max_search_position(buf, n, pos), idb)
  IN  IF strict # -1 THEN strict
      ELSE IF n = 1 THEN RelaxedSearch(buf, pos, buf.len - SearchTail, idb)
      ELSE -1

(***************************************************************************)
(* FieldResolver: lines 326-338 and 481-483.                               *)
(***************************************************************************)
\* a variant of StrengthOffset that skips for every non-zero count
StrengthOffsetNonZero(char_offset, skip_value) ==
  LET pattern_end == char_offset + PatternLength
  IN  IF skip_value # 0 THEN pattern_end + 4 + skip_value * 4 ELSE pattern_end + 4

\* strength_offset for a record found at char_offset with the skip count read
StrengthOffset(char_offset, skip_value) ==
  LET pattern_end == char_offset + PatternLength
  IN  IF skip_value > 0 THEN pattern_end + 4 + skip_value * 4 ELSE pattern_end + 4

SkillOffset(strength_offset, t) ==
  CASE t = "personal" -> strength_offset + PersonalDelta
    [] t = "commander" -> strength_offset + CommanderDelta
    [] t = "marshal" -> strength_offset + MarshalDelta

\* a variant of Clamp that leaves a negative value as it is
ClampAbove(v) == Min(v, StatHigh)

\* min(max(0, v), 1000), applied when either stat is outside [0, 1000]
Clamp(v) == Min(Max(StatLow, v), StatHigh)

(***************************************************************************)
(* SkillBitfieldCodec: lines 491-551.                                      *)
(***************************************************************************)
SkillIds(defs) == [k \in DOMAIN defs |-> defs[k].id]

\* (max([skill['id'] for skill in defs]) + 7) // 8, defs not empty
BytesNeeded(defs) == (SeqMax(SkillIds(defs)) + 7) \div 8

\* a variant of IsActive that does not skip the disabled skills
IsActiveDisabledToo(bytes, skill) ==
  LET byte_index == skill.id \div 8
      bit_position == skill.id % 8
  IN  /\ byte_index < Len(bytes)
      /\ BitSet(bytes[byte_index + 1], bit_position)

\* whether the skill's bit is read as set in the extracted bytes (line 527)
IsActive(bytes, skill) ==
  LET byte_index == skill.id \div 8
      bit_position == skill.id % 8
  IN  /\ skill.value # Disabled
      /\ byte_index < Len(bytes)
      /\ BitSet(bytes[byte_index + 1], bit_position)

\* the active list of a category: the enabled skills whose bit is set, in
\* catalog order (lines 520-551)
Decode(bytes, defs) ==
  LET Test(skill) == IsActive(bytes, skill)
  IN  SelectSeq(defs, Test)

(***************************************************************************)
(* File names: sequences of one-character strings.                         *)
(***************************************************************************)
Digits == <<"0", "1", "2", "3", "4", "5", "6", "7", "8", "9">>
IsDigit(c) == c \in Range(Digits)
DotSav == <<".", "s", "a", "v">>
RoguelikeSav == <<"_", "r", "o", "g", "u", "e", "l", "i", "k", "e", ".", "s", "a", "v">>

\* f"{n:03d}" for 0 <= n < 1000
Format03d(n) == <<Digits[((n \div 100) % 10) + 1], Digits[((n \div 10) % 10) + 1],
                  Digits[(n % 10) + 1]>>

\* re.match(r'^(.+)-(\d{3})\.sav$', file_name) matches
MatchesSaveName(name) ==
  LET n == Len(name)
  IN  /\ n >= 9
      /\ SubSeq(name, n - 3, n) = DotSav
      /\ \A k \in (n - 6)..(n - 4) : IsDigit(name[k])
      /\ name[n - 7] = "-"

\* match.group(1) of a matching name
PrefixOf(name) == SubSeq(name, 1, Len(name) - 8)

None == <<>>

\* save_prefix as main() computes it (lines 977-984)
SavePrefix(name) == IF MatchesSaveName(name) THEN PrefixOf(name) ELSE None

\* os.path.splitext(p)[0] for a name without leading dots
SplitextRoot(name) ==
  LET dots == {k \in DOMAIN name : name[k] = "."}
      last == CHOOSE k \in dots : \A j \in dots : j <= k
  IN  IF dots = {} \/ last = 1 THEN name ELSE SubSeq(name, 1, last - 1)

\* the default output path: line 690; same directory as the input
DefaultOutput(path) == [dir |-> path.dir, name |-> SplitextRoot(path.name) \o RoguelikeSav]

\* f"{save_prefix}-{save_number:03d}.sav": line 858; a relative name, which open()
\* resolves in the current directory
NumberedOutput(prefix, save_number) ==
  [dir |-> "cwd", name |-> prefix \o <<"-">> \o Format03d(save_number) \o DotSav]

(***************************************************************************)
(* _try_add_skill: lines 719-770.  picks are the values random.choice      *)
(* returns, as indices into available_skills.                              *)
(***************************************************************************)
\* skills of the category that are not active and not disabled (line 733)
AvailableSkills(defs, active) ==
  LET Free(skill) == skill \notin Range(active) /\ skill.value # Disabled
  IN  SelectSeq(defs, Free)

\* a variant of Rejected that compares the skill's value with the ceiling alone
RejectedIgnoringCurrent(skill, current, maxv) == maxv < skill.value * 100

\* line 745: the pick is rejected
Rejected(skill, current, maxv) == maxv - current < skill.value * 100

\* lines 750-758: grow the bytes with zeros up to byte_index, set the bit
SetSkillBit(bytes, skill) ==
  LET byte_index == skill.id \div 8
      bit_position == skill.id % 8
      grown == IF Len(bytes) <= byte_index
               THEN bytes \o [k \in 1..(byte_index + 1 - Len(bytes)) |-> 0]
               ELSE bytes
  IN  [grown EXCEPT ![byte_index + 1] = OrBit(@, bit_position)]

\* a variant of TryAddSkill that goes on picking after a pick that fits and
\* adds the last one that does
TryAddSkillLastFit(defs, bytes, active, current, maxv, picks) ==
  LET available == AvailableSkills(defs, active)
      fits == {k \in DOMAIN picks : ~Rejected(available[picks[k]], current, maxv)}
  IN  IF available = <<>>
      THEN [added |-> FALSE, bytes |-> bytes, active |-> active, npicks |-> 0]
      ELSE IF fits = {}
      THEN [added |-> FALSE, bytes |-> bytes, active |-> active, npicks |-> Len(picks)]
      ELSE LET k == -SetMin({-j : j \in fits})
               skill == available[picks[k]]
           IN  [added |-> TRUE, bytes |-> SetSkillBit(bytes, skill),
                active |-> Append(active, skill), npicks |-> k]

TryAddSkill(defs, bytes, active, current, maxv, picks) ==
  LET available == AvailableSkills(defs, active)
      fits == {k \in DOMAIN picks : ~Rejected(available[picks[k]], current, maxv)}
  IN  IF available = <<>>
      THEN [added |-> FALSE, bytes |-> bytes, active |-> active, npicks |-> 0]
      ELSE IF fits = {}
      THEN [added |-> FALSE, bytes |-> bytes, active |-> active, npicks |-> Len(picks)]
      ELSE LET k == SetMin(fits)
               skill == available[picks[k]]
           IN  [added |-> TRUE, bytes |-> SetSkillBit(bytes, skill),
                active |-> Append(active, skill), npicks |-> k]

\* the sequences of picks one call can make: pick_limit choices, each an index
\* into the available skills
PickSeqs(limit, navailable) ==
  IF navailable = 0 THEN {<<>>} ELSE [1..limit -> 1..navailable]

(***************************************************************************)
(* AttributeBudgetAllocator initialisation: lines 555-586.                 *)
(***************************************************************************)
SkillValues(active) == [k \in DOMAIN active |-> active[k].value * exist_attribute_rate]

\* active_skill_value, in hundredths (line 560)
ActiveSkillValue(m, c, p) == SeqSum(SkillValues(m \o c \o p))

\* current_attribute_value, in hundredths (lines 567-570)
InitialAttribute(str, int, random_extra, active_value) ==
  str * str_rate + int * int_rate + random_extra * 100 + active_value

\* max_random, in hundredths (line 586)
MaxRandom(str, int) == str * str_random_rate + int * int_random_rate

\* the largest value random.randint may return at line 594
RandomTop(str, int) == Max(1, IntOf(MaxRandom(str, int)) - 1)

\* line 597
ChoosesPersonal(random_value, str) == random_value * 100 < str * str_random_rate

(***************************************************************************)
(* Writing the skill bytes back: lines 665-674.  Each byte is stored in    *)
(* turn; the first index past the end raises IndexError.                   *)
(***************************************************************************)
\* a variant of StoreBytes that lets the bytearray grow to hold a byte stored
\* past its end
RECURSIVE StoreBytesExtending(_, _, _)
StoreBytesExtending(buf, offset, bytes) ==
  IF bytes = <<>> THEN [ok |-> TRUE, buf |-> buf]
  ELSE StoreBytesExtending(Put([buf EXCEPT !.len = Max(@, offset + 1)], offset, bytes[1]),
                           offset + 1, Tail(bytes))

RECURSIVE StoreBytes(_, _, _)
StoreBytes(buf, offset, bytes) ==
  IF bytes = <<>> THEN [ok |-> TRUE, buf |-> buf]
  ELSE IF offset >= buf.len THEN [ok |-> FALSE, buf |-> buf]
  ELSE StoreBytes(Put(buf, offset, bytes[1]), offset + 1, Tail(bytes))

(***************************************************************************)
(* State.                                                                  *)
(***************************************************************************)
VARIABLES
  files,                   \* the file system: path -> bytes
  save_file,               \* the path of the save file chosen (input_file)
  launch,                  \* "cli": main() line 1013, "gui": process_with_gui
  output_file,             \* process_save_file's output_file argument
  input_data,              \* the bytes read from input_file at line 166
  catalog,                 \* marshal_skills, commander_skills, personal_skills
  pick_limit,
  reroll_limit,
  pc,                      \* "start", "search", "loop", "write", "done"
  result,                  \* what process_save_file returned
  save_data,
  total_skills_added,
  total_characters,
  characters_processed,
  search_position,
  expected_char_id,
  strength,
  intelligence,
  strength_offset,
  skill_bytes,             \* marshal/commander/personal_skill_bytes
  active_skills,           \* active_marshal/commander/personal_skills
  added_skills,            \* added_marshal/commander/personal_skills
  current_attribute_value,
  max_attribute_value,
  consecutive_failures,
  draws,                   \* how many random values the last step drew
  tape,                    \* the values drawn so far, when the draws are recorded
  char_offsets,            \* char_offset of every record found so far
  config_lines,            \* the key=value lines of the configuration file
  line_number,             \* how many of them load_config has read
  self_attribute_thresholds,
  self_attribute_rates,
  warnings,                \* how many warnings load_config has printed
  load_pc                  \* "reading", "loaded", "exit"

cfgvars == <<config_lines, line_number, self_attribute_thresholds, self_attribute_rates, warnings,
             load_pc>>
envvars == <<save_file, launch, catalog, pick_limit, reroll_limit, cfgvars>>
runvars == <<total_skills_added, total_characters, characters_processed,
             search_position, expected_char_id>>
charvars == <<strength, intelligence, strength_offset, skill_bytes, active_skills,
              added_skills, current_attribute_value, max_attribute_value,
              consecutive_failures>>
vars == <<files, output_file, input_data, pc, result, save_data, draws, tape,
          char_offsets, envvars, runvars, charvars>>

last_character_number == LastChar
random_extra_attribute_min == -RandomExtraSpread
random_extra_attribute_max == RandomExtraSpread

NoPath == [dir |-> "", name |-> <<>>]
EmptyBuffer == [len |-> 0, nz |-> <<>>]
NoSkills == [t \in SkillTypes |-> <<>>]
Failure == <<FALSE>>

(***************************************************************************)
(* load_config, lines 66-159: the key=value lines.  A line is its key and  *)
(* what json.loads (or int) makes of its value: a list, a number, or a     *)
(* JSONDecodeError ("malformed").  Rates are in hundredths.                *)
(***************************************************************************)
ListValue(items) == [kind |-> "list", items |-> items]
NumberValue(n) == [kind |-> "number", items |-> <<n>>]
Malformed == [kind |-> "malformed", items |-> <<>>]
Line(key, value) == [key |-> key, value |-> value]

\* a variant of WrongLength that expects as many rates as thresholds
WrongLengthSame(rates, thresholds) == Len(rates) # Len(thresholds)

\* line 122
WrongLength(rates, thresholds) == Len(rates) # Len(thresholds) + 1

\* a variant of RateIndexOf that takes a value equal to a threshold to be
\* below it
RateIndexOfInclusive(thresholds, current) ==
  LET below == {i \in DOMAIN thresholds : current <= thresholds[i] * 100}
  IN  IF below = {} THEN Len(thresholds) ELSE SetMin(below) - 1

\* rate_index for a list of thresholds (lines 575-579)
RateIndexOf(thresholds, current) ==
  LET below == {i \in DOMAIN thresholds : current < thresholds[i] * 100}
  IN  IF below = {} THEN Len(thresholds) ELSE SetMin(below) - 1

\* rate_index for the thresholds load_config left (lines 575-579)
RateIndex(current) == RateIndexOf(self_attribute_thresholds, current)

\* line 581 raises IndexError when rate_index is not an index of attribute_rates
RateMissing(current) == RateIndex(current) + 1 \notin DOMAIN self_attribute_rates

\* max_attribute_value after the tier adjustment, in hundredths (lines 556, 581)
MaxAttribute(current) ==
  (BaseAttribute + extra_attribute) * self_attribute_rates[RateIndex(current) + 1]

\* one pass of the for loop of line 73 on a key=value line
LoadLine ==
  /\ load_pc = "reading"
  /\ line_number < Len(config_lines)
  /\ line_number' = line_number + 1
  /\ LET line == config_lines[line_number + 1]
         key == line.key
         value == line.value
     IN  CASE key = "pick_limit" ->
                \* line 96
                /\ pick_limit' = value.items[1]
                /\ UNCHANGED <<self_attribute_thresholds, self_attribute_rates, warnings,
                               load_pc>>
           [] key = "attribute_thresholds" ->
                \* lines 115-118
                /\ self_attribute_thresholds' =
                     IF value.kind = "list" THEN value.items ELSE self_attribute_thresholds
                /\ warnings' = IF value.kind = "malformed" THEN warnings + 1 ELSE warnings
                /\ UNCHANGED <<pick_limit, self_attribute_rates, load_pc>>
           [] key = "attribute_rates" ->
                \* lines 120-126; len() of a number raises TypeError, which the
                \* except of line 157 turns into sys.exit(1)
                /\ self_attribute_rates' =
                     IF value.kind = "list"
                     THEN IF WrongLength(value.items, self_attribute_thresholds)
                          THEN <<140, 125, 110, 100, 90>>
                          ELSE value.items
                     ELSE self_attribute_rates
                /\ warnings' =
                     IF value.kind = "malformed"
                        \/ (value.kind = "list"
                            /\ WrongLength(value.items, self_attribute_thresholds))
                     THEN warnings + 1 ELSE warnings
                /\ load_pc' = IF value.kind = "number" THEN "exit" ELSE load_pc
                /\ UNCHANGED <<pick_limit, self_attribute_thresholds>>
  /\ UNCHANGED <<files, output_file, input_data, pc, result, save_data, draws, tape,
                 char_offsets,
                 save_file, launch, catalog, reroll_limit, config_lines, runvars, charvars>>

\* the end of the for loop: load_config returns
FinishLoad ==
  /\ load_pc = "reading"
  /\ line_number = Len(config_lines)
  /\ load_pc' = "loaded"
  /\ UNCHANGED <<files, output_file, input_data, pc, result, save_data, draws, tape,
                 char_offsets,
                 save_file, launch, catalog, pick_limit, reroll_limit, config_lines,
                 line_number, self_attribute_thresholds, self_attribute_rates, warnings,
                 runvars, charvars>>

NextConfig == LoadLine \/ FinishLoad

(***************************************************************************)
(* The random source: random.randint (lines 564, 594, 605) and             *)
(* random.choice (line 742) of the one generator of the process.  When a   *)
(* run is made with a fixed source, tape holds the values it has returned. *)
(***************************************************************************)
Unrecorded == [on |-> FALSE, values |-> <<>>]
EmptyTape == [on |-> TRUE, values |-> <<>>]

Record(log, values) == IF log.on THEN [log EXCEPT !.values = @ \o values] ELSE log

\* a variant of Drawn in which the marshal/commander draw of line 605 is taken
\* from another generator
DrawnWithoutSecond(random_value, second_draw, picks, npicks) ==
  <<random_value>> \o SubSeq(picks, 1, npicks)

\* the values one pass of the while loop draws, in order: line 594, line 605
\* when the pass does not go to the personal category, and the choices of
\* line 742
Drawn(random_value, second_draw, picks, npicks) ==
  <<random_value>>
    \o (IF ChoosesPersonal(random_value, strength) THEN <<>> ELSE <<second_draw>>)
    \o SubSeq(picks, 1, npicks)

(***************************************************************************)
(* run_processing, lines 839-868 (or main(), line 1013), up to the start   *)
(* of the character loop of process_save_file, lines 161-187.              *)
(***************************************************************************)
\* the output_file argument of the call for a save number (0: cancelled)
OutputArgument(path, mode, save_number) ==
  IF mode = "gui" /\ save_number # 0 /\ SavePrefix(path.name) # None
  THEN NumberedOutput(SavePrefix(path.name), save_number)
  ELSE NoPath

SaveNumbers == {0, 5, 7}

RunProcessing ==
  /\ pc = "start"
  /\ \E save_number \in (IF launch = "gui" THEN SaveNumbers ELSE {0}) :
       output_file' = OutputArgument(save_file, launch, save_number)
  /\ save_data' = files[save_file]
  /\ input_data' = files[save_file]
  /\ total_skills_added' = 0
  /\ total_characters' = 0
  /\ characters_processed' = 0
  /\ search_position' = StartPosition
  /\ expected_char_id' = 1
  /\ pc' = "search"
  /\ draws' = 0
  /\ tape' = tape
  /\ char_offsets' = <<>>
  /\ UNCHANGED <<files, result, envvars, charvars>>

(***************************************************************************)
(* One pass of the character loop from line 189 to the while of line 592   *)
(* (or to the continue or return that ends it earlier).                    *)
(***************************************************************************)
\* a variant of AdvanceCursor that moves the cursor past the template only
AdvanceCursorPastTemplate(pattern_pos) == pattern_pos + PatternLength

\* search_position after a match (line 324)
AdvanceCursor(pattern_pos) == pattern_pos + RecordStride

\* four bytes read at off as a signed integer; ok is FALSE when struct.unpack
\* raises (the slice is shorter than four bytes)
ReadInt(buf, off) ==
  LET b == Slice(buf, off, off + 4)
  IN  IF Len(b) = 4 THEN [ok |-> TRUE, v |-> Unpack_i(b)] ELSE [ok |-> FALSE, v |-> 0]

\* a variant of IsEmptySlot that tests the sign of the stats
IsEmptySlotNegative(str, int) == str < 0 /\ int < 0

\* line 390
IsEmptySlot(str, int) == str = 0 /\ int = 0

\* lines 395-398
EffectiveStat(str, int, v) ==
  IF str < StatLow \/ str > StatHigh \/ int < StatLow \/ int > StatHigh THEN Clamp(v) ELSE v

\* lines 497-499
ExtractBytes(buf, offset, defs) == Slice(buf, offset, offset + BytesNeeded(defs))

\* a variant of Return that leaves the bytes processed so far in the default
\* output file
ReturnWriting(value) ==
  /\ pc' = "done"
  /\ result' = value
  /\ files' = (DefaultOutput(save_file) :> save_data) @@ files

Return(value) ==
  /\ pc' = "done"
  /\ result' = value
  /\ UNCHANGED <<files>>

ProcessCharacter ==
  /\ pc = "search"
  /\ expected_char_id <= last_character_number
  /\ \E pattern_pos \in {FindPattern(save_data, expected_char_id, search_position)} :
     \E skip \in {ReadInt(save_data, pattern_pos + PatternLength)} :
     \E soff \in {StrengthOffset(pattern_pos, skip.v)} :
     \E str \in {ReadInt(save_data, soff)} :
     \E int \in {ReadInt(save_data, soff + 4)} :
     LET s == EffectiveStat(str.v, int.v, str.v)
         i == EffectiveStat(str.v, int.v, int.v)
         bytes == [t \in SkillTypes |->
                     ExtractBytes(save_data, SkillOffset(soff, t), catalog[t])]
         active == [t \in SkillTypes |-> Decode(bytes[t], catalog[t])]
         active_value == ActiveSkillValue(active["marshal"], active["commander"],
                                          active["personal"])
     IN  IF pattern_pos = -1
         THEN IF expected_char_id = 1
              THEN \* lines 309-312
                   /\ Return(Failure)
                   /\ draws' = 0
                   /\ tape' = tape
                   /\ char_offsets' = char_offsets
                   /\ UNCHANGED <<save_data, runvars, charvars>>
              ELSE \* lines 314-317
                   /\ expected_char_id' = expected_char_id + 1
                   /\ draws' = 0
                   /\ tape' = tape
                   /\ char_offsets' = char_offsets
                   /\ UNCHANGED <<files, pc, result, save_data, total_skills_added,
                                  total_characters, characters_processed,
                                  search_position, charvars>>
         ELSE IF ~skip.ok \/ ~str.ok \/ ~int.ok
         THEN \* lines 330 and 346-355: the record was found (line 320), the
              \* locals assigned before the return are dead after it
              /\ Return(Failure)
              /\ draws' = 0
              /\ tape' = tape
              /\ char_offsets' = Append(char_offsets, pattern_pos)
              /\ UNCHANGED <<save_data, runvars, charvars>>
         ELSE IF IsEmptySlot(str.v, int.v)
         THEN \* lines 390-392
              /\ total_characters' = total_characters + 1
              /\ search_position' = AdvanceCursor(pattern_pos)
              /\ expected_char_id' = expected_char_id + 1
              /\ strength' = str.v
              /\ intelligence' = int.v
              /\ strength_offset' = soff
              /\ draws' = 0
              /\ tape' = tape
              /\ char_offsets' = Append(char_offsets, pattern_pos)
              /\ UNCHANGED <<files, pc, result, save_data, total_skills_added,
                             characters_processed, skill_bytes, active_skills,
                             added_skills, current_attribute_value,
                             max_attribute_value, consecutive_failures>>
         ELSE IF \E t \in SkillTypes : catalog[t] = <<>>
         THEN \* lines 492-494: max() of an empty list raises ValueError
              /\ Return(Failure)
              /\ draws' = 0
              /\ tape' = tape
              /\ char_offsets' = Append(char_offsets, pattern_pos)
              /\ UNCHANGED <<save_data, runvars, charvars>>
         ELSE \E random_extra \in random_extra_attribute_min..random_extra_attribute_max :
              IF RateMissing(InitialAttribute(s, i, random_extra, active_value))
              THEN \* line 581: IndexError, caught at line 713
                   /\ Return(Failure)
                   /\ draws' = 1
                   /\ tape' = Record(tape, <<random_extra>>)
                   /\ char_offsets' = Append(char_offsets, pattern_pos)
                   /\ UNCHANGED <<save_data, runvars, charvars>>
              ELSE
              /\ total_characters' = total_characters + 1
              /\ search_position' = AdvanceCursor(pattern_pos)
              /\ strength' = s
              /\ intelligence' = i
              /\ strength_offset' = soff
              /\ skill_bytes' = bytes
              /\ active_skills' = active
              /\ added_skills' = NoSkills
              /\ current_attribute_value' = InitialAttribute(s, i, random_extra, active_value)
              /\ max_attribute_value' =
                   MaxAttribute(InitialAttribute(s, i, random_extra, active_value))
              /\ consecutive_failures' = 0
              /\ draws' = 1
              /\ tape' = Record(tape, <<random_extra>>)
              /\ char_offsets' = Append(char_offsets, pattern_pos)
              /\ pc' = "loop"
              /\ UNCHANGED <<files, result, save_data, total_skills_added,
                             characters_processed, expected_char_id>>
  /\ UNCHANGED <<output_file, input_data, envvars>>

(***************************************************************************)
(* One pass of the while loop, lines 592-632.                              *)
(***************************************************************************)
\* lines 628-630
AllSkillsAdded(active) == \A t \in SkillTypes : Len(active[t]) = Len(catalog[t])

\* a variant of TargetCategory that gives marshal two values of the second draw
TargetCategoryTwoThirds(random_value, str, second_draw) ==
  IF ChoosesPersonal(random_value, str) THEN "personal"
  ELSE IF second_draw < 2 THEN "marshal" ELSE "commander"

\* the category a step attempts: lines 597-605
TargetCategory(random_value, str, second_draw) ==
  IF ChoosesPersonal(random_value, str) THEN "personal"
  ELSE IF second_draw = 0 THEN "marshal" ELSE "commander"

\* a variant of NextFailures that does not reset the count after a success
NextFailuresKeeping(failures, added) == IF added THEN failures ELSE failures + 1

\* a variant of NextFailures that does not count a failure
NextFailuresStuck(failures, added) == IF added THEN 0 ELSE failures

\* consecutive_failures after a step (lines 615-625)
NextFailures(failures, added) == IF added THEN 0 ELSE failures + 1

\* current_attribute_value after a step (lines 617-623)
NextAttribute(current, added, active) ==
  IF added THEN current + active[Len(active)].value * 100 ELSE current

AllocationStep ==
  /\ pc = "loop"
  /\ consecutive_failures < reroll_limit
  /\ \E random_value \in 0..RandomTop(strength, intelligence) :
     \E second_draw \in (IF ChoosesPersonal(random_value, strength) THEN {0} ELSE 0..2) :
       LET t == TargetCategory(random_value, strength, second_draw)
           navailable == Len(AvailableSkills(catalog[t], active_skills[t]))
       IN  \E picks \in PickSeqs(pick_limit, navailable) :
             LET r == TryAddSkill(catalog[t], skill_bytes[t], active_skills[t],
                                  current_attribute_value, max_attribute_value, picks)
                 active == [active_skills EXCEPT ![t] = r.active]
             IN  /\ skill_bytes' = [skill_bytes EXCEPT ![t] = r.bytes]
                 /\ active_skills' = active
                 /\ added_skills' =
                      IF r.added
                      THEN [added_skills EXCEPT ![t] = Append(@, r.active[Len(r.active)])]
                      ELSE added_skills
                 /\ consecutive_failures' = NextFailures(consecutive_failures, r.added)
                 /\ current_attribute_value' =
                      NextAttribute(current_attribute_value, r.added, r.active)
                 /\ draws' = (IF ChoosesPersonal(random_value, strength) THEN 1 ELSE 2)
                               + r.npicks
                 /\ tape' = Record(tape, Drawn(random_value, second_draw, picks, r.npicks))
                 /\ char_offsets' = char_offsets
                 /\ pc' = IF AllSkillsAdded(active) THEN "write" ELSE "loop"
  /\ UNCHANGED <<files, output_file, input_data, result, save_data, envvars, runvars,
                 strength, intelligence, strength_offset, max_attribute_value>>

(***************************************************************************)
(* After the while loop: the statistics and the write of the skill bytes   *)
(* to save_data, lines 634-686.                                            *)
(***************************************************************************)
\* a variant of CharSkillsAdded that leaves out the marshal skills
CharSkillsAddedTwoLists(added) == Len(added["commander"]) + Len(added["personal"])

CharSkillsAdded(added) ==
  Len(added["marshal"]) + Len(added["commander"]) + Len(added["personal"])

\* lines 665-674: marshal, commander, then personal
WriteSkillBytes(buf, soff, bytes) ==
  LET m == StoreBytes(buf, SkillOffset(soff, "marshal"), bytes["marshal"])
      c == StoreBytes(m.buf, SkillOffset(soff, "commander"), bytes["commander"])
      p == StoreBytes(c.buf, SkillOffset(soff, "personal"), bytes["personal"])
  IN  IF ~m.ok THEN m ELSE IF ~c.ok THEN c ELSE p

WriteBack ==
  /\ \/ pc = "write"
     \/ pc = "loop" /\ ~(consecutive_failures < reroll_limit)
  /\ LET w == WriteSkillBytes(save_data, strength_offset, skill_bytes)
     IN  /\ save_data' = w.buf
         /\ IF w.ok
            THEN /\ total_skills_added' = total_skills_added + CharSkillsAdded(added_skills)
                 /\ characters_processed' =
                      IF CharSkillsAdded(added_skills) > 0
                      THEN characters_processed + 1 ELSE characters_processed
                 /\ expected_char_id' = expected_char_id + 1
                 /\ pc' = "search"
                 /\ UNCHANGED <<files, result>>
            ELSE \* IndexError, caught at line 713
                 /\ Return(Failure)
                 /\ UNCHANGED <<total_skills_added, characters_processed, expected_char_id>>
  /\ draws' = 0
  /\ tape' = tape
  /\ char_offsets' = char_offsets
  /\ UNCHANGED <<output_file, input_data, envvars, total_characters, search_position,
                 charvars>>

(***************************************************************************)
(* After the character loop: the write of the output file, lines 688-711.  *)
(***************************************************************************)
\* the path written (lines 689-690)
OutputPath(input, output) == IF output = NoPath THEN DefaultOutput(input) ELSE output

WriteOutput ==
  /\ pc = "search"
  /\ expected_char_id > last_character_number
  /\ files' = (OutputPath(save_file, output_file) :> save_data) @@ files
  /\ result' = <<total_characters, characters_processed, total_skills_added>>
  /\ pc' = "done"
  /\ draws' = 0
  /\ tape' = tape
  /\ char_offsets' = char_offsets
  /\ UNCHANGED <<output_file, input_data, save_data, envvars, runvars, charvars>>

Next == RunProcessing \/ ProcessCharacter \/ AllocationStep \/ WriteBack \/ WriteOutput

(***************************************************************************)
(* The inputs of the model: catalogs, save files, configurations.          *)
(***************************************************************************)
Skill(id, value) == [id |-> id, value |-> value]

Catalog(m, c, p) == [t \in SkillTypes |->
                       CASE t = "marshal" -> m [] t = "commander" -> c [] t = "personal" -> p]

\* every skill enabled, largest ids 3, 1 and 1
PlainCatalog ==
  Catalog(<<Skill(3, 30)>>, <<Skill(1, 100)>>, <<Skill(0, 200), Skill(1, 164)>>)

\* a disabled marshal skill; largest commander id 8, largest personal id 0
EdgeCatalog ==
  Catalog(<<Skill(1, 100), Skill(2, Disabled)>>, <<Skill(8, 120)>>, <<Skill(0, 150)>>)

\* no marshal skill at all
NoMarshalCatalog == Catalog(<<>>, <<Skill(0, 10)>>, <<Skill(0, 10)>>)

Catalogs == {PlainCatalog, EdgeCatalog, NoMarshalCatalog}

\* the 22 bytes of the strict template for character n (lines 236-260)
PatternBytes(n) ==
  char_id_bytes(n) \o <<0, 0>> \o MarkShort \o char_id_bytes(n) \o <<0, 0>> \o MarkLong

\* the bytes of one character record at pos, as chunks [at, bytes]
RecordChunks(pos, n, shape) ==
  LET soff == StrengthOffset(pos, shape.skip)
  IN  <<[at |-> pos, bytes |-> PatternBytes(n) \o Pack_i(shape.skip)],
        [at |-> soff, bytes |-> Pack_i(shape.str) \o Pack_i(shape.int)],
        [at |-> SkillOffset(soff, "personal"), bytes |-> shape.bits["personal"]],
        [at |-> SkillOffset(soff, "commander"), bytes |-> shape.bits["commander"]],
        [at |-> SkillOffset(soff, "marshal"), bytes |-> shape.bits["marshal"]]>>

\* a bytearray of length len holding the chunks, zero elsewhere
BufferOf(len, chunks) ==
  LET Covers(c, i) == c.at <= i /\ i < c.at + Len(c.bytes)
      covered == UNION {c.at..(c.at + Len(c.bytes) - 1) : c \in Range(chunks)}
      ByteAt(i) == LET c == CHOOSE c \in Range(chunks) : Covers(c, i)
                   IN  c.bytes[i - c.at + 1]
  IN  [len |-> len,
       nz |-> [i \in {j \in covered : j < len /\ ByteAt(j) # 0} |-> ByteAt(i)]]

Bits(m, c, p) == Catalog(m, c, p)
ZeroBits == Bits(<<>>, <<>>, <<>>)
\* personal bit 0 and bit 7, commander bit 9, marshal bit 2
SomeBits == Bits(<<4>>, <<0, 2>>, <<129>>)
AllBits == Bits(<<255, 255>>, <<255, 255>>, <<255, 255>>)

Shape(skip, str, int, bits) == [skip |-> skip, str |-> str, int |-> int, bits |-> bits]

\* the records a save file of the model holds for character 1 (<<>>: none)
FirstShapes ==
  {<<>>, <<Shape(0, 0, 0, SomeBits)>>, <<Shape(0, 2, 1, ZeroBits)>>,
   <<Shape(1, 2, 1, SomeBits)>>, <<Shape(0, 2, 1, AllBits)>>}

\* and for character 2
SecondShapes ==
  {<<>>, <<Shape(0, 0, 0, SomeBits)>>, <<Shape(0, 2, 1, ZeroBits)>>,
   <<Shape(0, 2, 1, SomeBits)>>}

FirstPosition == StartPosition
SecondPosition == StartPosition + RecordStride
FullLength == StartPosition + 2 * RecordStride

\* lengths that cut the file inside the second record: before its strength,
\* and before its skill bytes
CutLengths ==
  {SecondPosition + PatternLength + 4,
   SkillOffset(StrengthOffset(SecondPosition, 0), "personal")}

ChunksOf(first, second) ==
  (IF first = <<>> THEN <<>> ELSE RecordChunks(FirstPosition, 1, first[1]))
    \o (IF second = <<>> THEN <<>> ELSE RecordChunks(SecondPosition, 2, second[1]))

SaveFiles ==
  {BufferOf(FullLength, ChunksOf(first, second)) :
     first \in FirstShapes, second \in SecondShapes}
  \cup
  {BufferOf(len, ChunksOf(first, <<Shape(0, 2, 1, ZeroBits)>>)) :
     first \in {<<Shape(0, 2, 1, ZeroBits)>>}, len \in CutLengths}

SaveName == <<"S", "-", "0", "0", "5", ".", "s", "a", "v">>
PlainName == <<"x", ".", "s", "a", "v">>

\* the save file chosen, the way the program was started and the catalog
Inputs(paths, modes, buffers, catalogs) ==
  /\ save_file \in paths
  /\ launch \in modes
  /\ launch = "gui" => MatchesSaveName(save_file.name)
  /\ \E buffer \in buffers : files = (save_file :> buffer)
  /\ catalog \in catalogs

\* process_save_file has not been called
NotStarted ==
  /\ output_file = NoPath
  /\ input_data = EmptyBuffer
  /\ pc = "start"
  /\ result = <<>>
  /\ save_data = EmptyBuffer
  /\ total_skills_added = 0
  /\ total_characters = 0
  /\ characters_processed = 0
  /\ search_position = 0
  /\ expected_char_id = 0
  /\ strength = 0
  /\ intelligence = 0
  /\ strength_offset = 0
  /\ skill_bytes = NoSkills
  /\ active_skills = NoSkills
  /\ added_skills = NoSkills
  /\ current_attribute_value = 0
  /\ max_attribute_value = 0
  /\ consecutive_failures = 0
  /\ draws = 0
  /\ char_offsets = <<>>

\* load_config has read a file without attribute_thresholds and attribute_rates
\* lines: the values of lines 43-44
DefaultConfig ==
  /\ config_lines = <<>>
  /\ line_number = 0
  /\ self_attribute_thresholds = attribute_thresholds
  /\ self_attribute_rates = attribute_rates
  /\ warnings = 0
  /\ load_pc = "loaded"

InitWith(paths, modes, buffers, catalogs) ==
  /\ Inputs(paths, modes, buffers, catalogs)
  /\ pick_limit \in 0..MaxPickLimit
  /\ reroll_limit \in 0..MaxRerollLimit
  /\ tape = Unrecorded
  /\ DefaultConfig
  /\ NotStarted

Init == InitWith({[dir |-> "saves", name |-> SaveName]}, {"cli"}, SaveFiles, Catalogs)

Spec == Init /\ [][Next]_vars

\* the same runs, which do not stop while a step of the program is possible
FairSpec == Spec /\ WF_vars(Next)

\* the launches: the command line and the file picker, with the save file in
\* the current directory or elsewhere
SavePaths == {[dir |-> d, name |-> n] : d \in {"cwd", "saves"}, n \in {SaveName, PlainName}}

LaunchFiles == {BufferOf(FullLength, ChunksOf(<<Shape(0, 2, 1, ZeroBits)>>, <<>>))}

InitLaunch == InitWith(SavePaths, {"cli", "gui"}, LaunchFiles, {PlainCatalog})

SpecLaunch == InitLaunch /\ [][Next]_vars

\* runs made with a fixed random source, whose values are recorded
TapeFiles ==
  {BufferOf(FullLength, ChunksOf(<<Shape(0, 2, 1, AllBits)>>, <<Shape(0, 2, 1, ZeroBits)>>)),
   BufferOf(SkillOffset(StrengthOffset(SecondPosition, 0), "personal"),
            ChunksOf(<<Shape(1, 0, 0, SomeBits)>>, <<Shape(0, 2, 1, ZeroBits)>>))}

InitTape ==
  /\ Inputs({[dir |-> "saves", name |-> SaveName]}, {"cli"}, TapeFiles,
            {PlainCatalog, EdgeCatalog})
  /\ pick_limit \in 0..1
  /\ reroll_limit \in 0..1
  /\ tape = EmptyTape
  /\ DefaultConfig
  /\ NotStarted

SpecTape == InitTape /\ [][Next]_vars

\* the single-skill run: one record for id 1 at 0x20000 with strength 100,
\* intelligence 90, skip count 0 and no skill bit set; one personal skill
\* (id 0, value 10) and no marshal or commander skill; pick_limit 5 and
\* reroll_limit 3.  The other runs have one skill in every category, or a
\* weaker character.
SingleSkillFile == BufferOf(FullLength, RecordChunks(FirstPosition, 1, Shape(0, 100, 90, ZeroBits)))
SingleSkillCatalog == Catalog(<<>>, <<>>, <<Skill(0, 10)>>)
OneEachCatalog == Catalog(<<Skill(0, 10)>>, <<Skill(0, 10)>>, <<Skill(0, 10)>>)

InitScenario ==
  /\ Inputs({[dir |-> "saves", name |-> SaveName]}, {"cli"},
            {SingleSkillFile, BufferOf(FullLength, ChunksOf(<<Shape(0, 2, 1, ZeroBits)>>, <<>>))},
            {SingleSkillCatalog, OneEachCatalog})
  /\ pick_limit = 5
  /\ reroll_limit = 3
  /\ tape = Unrecorded
  /\ DefaultConfig
  /\ NotStarted

SpecScenario == InitScenario /\ [][Next]_vars

\* the configuration files: up to MaxConfigLines of these lines, in any order
\* and with repetitions
TwoThresholds == Line("attribute_thresholds", ListValue(<<50, 100>>))
FiveThresholds == Line("attribute_thresholds", ListValue(<<100, 130, 160, 190, 220>>))
TwoRates == Line("attribute_rates", ListValue(<<200, 100>>))
ThreeRates == Line("attribute_rates", ListValue(<<150, 100, 50>>))
SixRates == Line("attribute_rates", ListValue(<<120, 110, 100, 90, 80, 70>>))

ConfigLines ==
  {TwoThresholds, FiveThresholds, TwoRates, ThreeRates, SixRates,
   Line("attribute_thresholds", Malformed), Line("attribute_rates", Malformed),
   Line("attribute_rates", NumberValue(5)), Line("pick_limit", NumberValue(1))}

ConfigFiles == UNION {[1..n -> ConfigLines] : n \in 0..MaxConfigLines}

\* RogueLike.__init__ has set the defaults (lines 32-50) and calls load_config
InitConfig ==
  /\ Inputs({[dir |-> "saves", name |-> SaveName]}, {"cli"},
            {BufferOf(FullLength, ChunksOf(<<Shape(0, 2, 1, ZeroBits)>>, <<>>))},
            {PlainCatalog})
  /\ pick_limit = 5
  /\ reroll_limit = 3
  /\ tape = Unrecorded
  /\ config_lines \in ConfigFiles
  /\ line_number = 0
  /\ self_attribute_thresholds = attribute_thresholds
  /\ self_attribute_rates = attribute_rates
  /\ warnings = 0
  /\ load_pc = "reading"
  /\ NotStarted

SpecConfig == InitConfig /\ [][NextConfig]_vars

(***************************************************************************)
(* Save files for the scanner: templates at odd places, with any bytes at  *)
(* i+2..i+4 and i+11..i+13, and byte runs that look like a template.       *)
(***************************************************************************)
ScanFiles ==
  LET S == StartPosition
      \* the strict template with a at i+2 and b at i+11
      PatternWith(n, a, b) ==
        char_id_bytes(n) \o a \o MarkShort \o char_id_bytes(n) \o b \o MarkLong

      \* the template with another id in second place: no match
      WrongSecondId(n) ==
        char_id_bytes(n) \o <<0, 0>> \o MarkShort \o char_id_bytes(n + 1) \o <<0, 0>> \o MarkLong

      \* the template with a non-zero byte after the second 'Mark\0': relaxed match
      ShortSecondMark(n) ==
        char_id_bytes(n) \o <<0, 0>> \o MarkShort \o char_id_bytes(n) \o <<0, 0>>
          \o MarkShort \o <<9, 0, 0, 0>>

      \* the template with a wrong first marker: relaxed match by the marker at i+13
      BadFirstMark(n) ==
        char_id_bytes(n) \o <<0, 0>> \o <<88, 97, 114, 107, 0>> \o char_id_bytes(n) \o <<0, 0>>
          \o MarkLong

      \* the id and the first marker alone: no match
      NoSecondId(n) == char_id_bytes(n) \o <<0, 0>> \o MarkShort

      \* the id and the first marker, and the id again at i+at
      LateSecondId(n, at) ==
        NoSecondId(n) \o [k \in 1..(at - 9) |-> 0] \o char_id_bytes(n)

      Bytes(at, bytes) == <<[at |-> at, bytes |-> bytes]>>
      EmptySlot == Shape(0, 0, 0, ZeroBits)
      ScanLength == StartPosition + 3000
      Cursor(pos) == pos + RecordStride
  IN  { \* a near-match, then two templates for id 1; id 2 at the last offset
        \* of its window
        BufferOf(ScanLength,
                 Bytes(S + 10, WrongSecondId(1)) \o Bytes(S + 40, PatternWith(1, <<7, 9>>, <<5, 6>>))
                   \o Bytes(S + 300, PatternWith(1, <<0, 0>>, <<0, 0>>))
                   \o RecordChunks(Cursor(S + 40) + SearchWindow - 1, 2, Shape(2, 2, 1, SomeBits))),
        \* a relaxed match before the template of id 1; id 2 just past its window
        BufferOf(ScanLength,
                 Bytes(S + 100, ShortSecondMark(1))
                   \o RecordChunks(S + 500, 1, Shape(2, 2, 1, SomeBits))
                   \o RecordChunks(Cursor(S + 500) + SearchWindow, 2, EmptySlot)),
        \* relaxed matches only for id 1; a relaxed match for id 2 in its window
        BufferOf(ScanLength,
                 Bytes(S + 20, NoSecondId(1)) \o Bytes(S + 50, BadFirstMark(1))
                   \o Bytes(S + 100, ShortSecondMark(1))
                   \o Bytes(Cursor(S + 50) + 5, ShortSecondMark(2))),
        \* one relaxed match by the marker at i+4
        BufferOf(ScanLength, Bytes(S + 70, ShortSecondMark(1))),
        \* no match for id 1
        BufferOf(ScanLength, Bytes(S + 20, NoSecondId(1)) \o Bytes(S + 200, WrongSecondId(1))),
        \* the second id at the last offset looked at by the relaxed pass, and
        \* one further
        BufferOf(ScanLength, Bytes(S + 60, LateSecondId(1, 19))),
        BufferOf(ScanLength, Bytes(S + 60, LateSecondId(1, 20))),
        \* the template of id 1 before the start position
        BufferOf(ScanLength, RecordChunks(S - 30, 1, EmptySlot)),
        \* the template of id 1 at the first offset not searched, and at the last
        \* one searched
        BufferOf(S + 100, Bytes(S + 100 - SearchTail, PatternWith(1, <<0, 0>>, <<0, 0>>))),
        BufferOf(S + 100, Bytes(S + 100 - SearchTail - 1, PatternWith(1, <<0, 0>>, <<0, 0>>))),
        \* a negative skip count followed by the statistics; id 2 before the
        \* cursor
        BufferOf(ScanLength,
                 Bytes(S, PatternBytes(1) \o Pack_i(-1) \o Pack_i(2) \o Pack_i(1))
                   \o RecordChunks(Cursor(S) - 10, 2, EmptySlot)),
        \* id 2 at the cursor
        BufferOf(ScanLength,
                 RecordChunks(S, 1, EmptySlot) \o RecordChunks(Cursor(S), 2, Shape(2, 2, 1, SomeBits))),
        \* a skip count that puts the personal skill byte of record 1 on the
        \* strength of record 2
        BufferOf(ScanLength,
                 Bytes(S, PatternBytes(1) \o Pack_i(62))
                   \o Bytes(S + 26 + 4 * 62, Pack_i(2) \o Pack_i(1))
                   \o RecordChunks(S + 4 * 62 + PersonalDelta, 2, Shape(0, 2, 1, ZeroBits))),
        \* a window cut by the end of the buffer: id 2 at the first offset not
        \* searched, and at the last one searched
        BufferOf(Cursor(S) + 500,
                 RecordChunks(S, 1, EmptySlot)
                   \o Bytes(Cursor(S) + 500 - SearchTail, PatternWith(2, <<0, 0>>, <<0, 0>>))),
        BufferOf(Cursor(S) + 500,
                 RecordChunks(S, 1, EmptySlot)
                   \o Bytes(Cursor(S) + 500 - SearchTail - 1, PatternWith(2, <<0, 0>>, <<0, 0>>))) }

InitScan ==
  /\ Inputs({[dir |-> "saves", name |-> SaveName]}, {"cli"}, ScanFiles, {PlainCatalog})
  /\ pick_limit = 1
  /\ reroll_limit = 1
  /\ tape = Unrecorded
  /\ DefaultConfig
  /\ NotStarted

SpecScan == InitScan /\ [][Next]_vars

(***************************************************************************)
(* Runs on records with statistics at the edges of the ranges tested at    *)
(* lines 390-398 and 594-597, under configurations load_config can leave,  *)
(* with every value drawn recorded.                                        *)
(***************************************************************************)
EdgeFiles ==
  LET S == StartPosition
      Alone(shape) == BufferOf(S + 3000, RecordChunks(S, 1, shape))
  IN  { Alone(Shape(0, 1, 0, ZeroBits)),
        Alone(Shape(0, 0, 1, ZeroBits)),
        Alone(Shape(0, -1, 0, ZeroBits)),
        Alone(Shape(0, 1001, -2, ZeroBits)),
        Alone(Shape(0, 2, 1, ZeroBits)),
        Alone(Shape(0, 2, 1, SomeBits)) }

InitEdge ==
  /\ Inputs({[dir |-> "saves", name |-> SaveName]}, {"cli"}, EdgeFiles,
            {PlainCatalog, EdgeCatalog})
  /\ pick_limit \in 1..2
  /\ reroll_limit = 1
  /\ tape = EmptyTape
  \* attribute_thresholds and attribute_rates as load_config leaves them: the
  \* defaults, two consistent pairs, and five thresholds with the default rates
  /\ \E c \in { <<attribute_thresholds, attribute_rates>>,
                 <<<<4>>, <<200, 70>>>>,
                 <<<<2, 5>>, <<150, 100, 50>>>>,
                 <<<<1, 2, 3, 4, 5>>, attribute_rates>> } :
       /\ self_attribute_thresholds = c[1]
       /\ self_attribute_rates = c[2]
  /\ config_lines = <<>>
  /\ line_number = 0
  /\ warnings = 0
  /\ load_pc = "loaded"
  /\ NotStarted

SpecEdge == InitEdge /\ [][Next]_vars

(***************************************************************************)
(* Vocabulary of the properties.                                           *)
(***************************************************************************)
\* one pass of the while loop (AllocationStep) is being taken
LoopPass == pc = "loop" /\ pc' \in {"loop", "write"}

\* the pass added a skill
PassAdded == LoopPass /\ added_skills' # added_skills

\* the skill bytes of a character have just been stored without an error
StoredBack == pc \in {"loop", "write"} /\ pc' = "search"

\* the while loop will not take another pass
LoopStopped == ~(pc = "loop" /\ consecutive_failures < reroll_limit)

\* the while loop has just been reached for a character
JustDecoded ==
  pc = "loop" /\ consecutive_failures = 0 /\ CharSkillsAdded(added_skills) = 0

Succeeded == pc = "done" /\ result # Failure
Failed == pc = "done" /\ result = Failure

\* every bit set in a is set in b, at every offset
BitsKept(a, b) ==
  \A p \in DOMAIN a.nz : \A bit \in 0..7 : BitSet(a.nz[p], bit) => BitSet(Get(b, p), bit)

\* ceil((max id + 1) / 8)
CeilBytes(defs) == (SeqMax(SkillIds(defs)) + 8) \div 8

\* the enabled skills of a category whose bit (id % 8) of byte (id / 8) at the
\* category's offset is set in buf, in catalog order
BitsActive(buf, offset, defs) ==
  LET On(skill) == /\ skill.value # Disabled
                   /\ offset + skill.id \div 8 < buf.len
                   /\ BitSet(Get(buf, offset + skill.id \div 8), skill.id % 8)
  IN  SelectSeq(defs, On)

NoDuplicates(seq) == Cardinality(Range(seq)) = Len(seq)

(***************************************************************************)
(* C1: immediately after every successful skill addition of the allocation *)
(* loop, current_attribute_value, increased by the value of the skill just *)
(* added, is at most max_attribute_value.                                  *)
(***************************************************************************)
C1_BudgetAfterAddition ==
  [][PassAdded =>
       /\ current_attribute_value' <= max_attribute_value'
       /\ \E t \in SkillTypes :
            /\ added_skills'[t] # added_skills[t]
            /\ current_attribute_value' =
                 current_attribute_value
                   + added_skills'[t][Len(added_skills'[t])].value * 100]_vars

\* two skills were added and what is left of the budget is less than the
\* cheapest skill of the catalogs
C1_Witness ==
  /\ pc = "loop"
  /\ CharSkillsAdded(added_skills) >= 2
  /\ max_attribute_value - current_attribute_value < 1000

(***************************************************************************)
(* C2: no bit is ever cleared: every bit that is 1 in the input buffer is  *)
(* 1 in save_data at every point of the run.                               *)
(***************************************************************************)
C2_NoBitCleared == pc # "start" => BitsKept(input_data, save_data)

(***************************************************************************)
(* C3: when the skill bytes of a character have been written back,         *)
(* decoding save_data at the same offsets with the same catalog gives      *)
(* exactly the skills decoded before plus the skills added, each once.     *)
(***************************************************************************)
C3_RoundTrip ==
  [][StoredBack =>
       \A t \in SkillTypes :
         LET again == Decode(ExtractBytes(save_data', SkillOffset(strength_offset, t),
                                          catalog[t]), catalog[t])
         IN  /\ Range(again) = Range(active_skills[t])
             /\ Range(added_skills[t]) \subseteq Range(again)
             /\ NoDuplicates(again)
             /\ NoDuplicates(active_skills[t])]_vars

(***************************************************************************)
(* C4: for each category ceil((max id + 1) / 8) bytes are extracted, and   *)
(* the active list computed for a character is exactly the enabled catalog *)
(* entries whose bit is set in the buffer, in catalog order.               *)
(***************************************************************************)
C4_DecodeResult ==
  JustDecoded =>
    \A t \in SkillTypes :
      LET offset == SkillOffset(strength_offset, t)
      IN  /\ Len(skill_bytes[t]) = Min(CeilBytes(catalog[t]), Max(0, save_data.len - offset))
          /\ active_skills[t] = BitsActive(save_data, offset, catalog[t])

(***************************************************************************)
(* C5: the output file is written if and only if the run succeeds: until   *)
(* the run has succeeded, and for good when it has failed, the file system *)
(* holds the input file alone; after a success it holds the output file,   *)
(* with the bytes of save_data.  A run on a file in which character 1 is   *)
(* not found fails.                                                        *)
(***************************************************************************)
C5_OutputIffSuccess ==
  /\ ~Succeeded => DOMAIN files = {save_file}
  /\ Succeeded =>
       /\ OutputPath(save_file, output_file) \in DOMAIN files
       /\ files[OutputPath(save_file, output_file)] = save_data
  /\ pc = "done" => (result = Failure \/ Len(result) = 3)
  /\ (pc = "done" /\ FindPattern(input_data, 1, StartPosition) = -1) => result = Failure

\* the run failed at the second character after the first was changed in memory
C5_Witness ==
  /\ Failed
  /\ expected_char_id = 2
  /\ save_data # input_data

(***************************************************************************)
(* C6: the input file is never overwritten: the path written differs from  *)
(* input_file and the bytes of the input file are those read at the start. *)
(***************************************************************************)
C6_InputNeverOverwritten ==
  /\ pc # "start" => files[save_file] = input_data
  /\ Succeeded => OutputPath(save_file, output_file) # save_file

(***************************************************************************)
(* C7: on success the output has exactly the length of the input.          *)
(***************************************************************************)
C7_SameLength ==
  /\ pc # "start" => save_data.len = input_data.len
  /\ Succeeded => files[OutputPath(save_file, output_file)].len = input_data.len

\* a run that succeeded after the skill bytes of a category had grown beyond
\* the bytes extracted for it
C7_Witness ==
  /\ Succeeded
  /\ total_skills_added > 0
  /\ \E t \in SkillTypes : Len(skill_bytes[t]) > BytesNeeded(catalog[t])

(***************************************************************************)
(* C8: consecutive_failures never exceeds reroll_limit; a failed pass of   *)
(* the loop adds exactly 1 to it, a successful pass resets it to 0, and no *)
(* pass is taken once it equals reroll_limit.                              *)
(***************************************************************************)
C8_BoundedFailures ==
  /\ [](consecutive_failures >= 0 /\ consecutive_failures <= reroll_limit)
  /\ [][LoopPass =>
          /\ consecutive_failures < reroll_limit
          /\ PassAdded => consecutive_failures' = 0
          /\ ~PassAdded => consecutive_failures' = consecutive_failures + 1]_vars

\* reroll_limit failures in a row after a success
C8_Witness ==
  /\ pc = "loop"
  /\ reroll_limit >= 2
  /\ consecutive_failures = reroll_limit
  /\ CharSkillsAdded(added_skills) > 0

(***************************************************************************)
(* C9, as claimed: the loop has stopped whenever consecutive_failures      *)
(* equals reroll_limit or all three catalogs are fully active.             *)
(***************************************************************************)
C9_StoppedWhenFullyActive ==
  (pc = "loop" /\ (consecutive_failures = reroll_limit \/ AllSkillsAdded(active_skills)))
    => LoopStopped

(***************************************************************************)
(* C9, amended: every run ends (with the output written or a failure       *)
(* returned), and the loop has stopped at the latest after the first pass  *)
(* that ends with consecutive_failures equal to reroll_limit or with all   *)
(* three catalogs fully active.                                            *)
(***************************************************************************)
C9_Termination ==
  /\ <>(pc = "done")
  /\ [][LoopPass =>
          ((consecutive_failures' = reroll_limit \/ AllSkillsAdded(active_skills'))
             => LoopStopped')]_vars

\* a run that ended after two characters went through the allocation loop
C9_Witness ==
  /\ Succeeded
  /\ result[1] = 2
  /\ result[3] >= 2

\* the record of the character searched for is found and both its stats read 0
ReadsZeroStats ==
  /\ pc = "search"
  /\ expected_char_id <= last_character_number
  /\ LET pos == FindPattern(save_data, expected_char_id, search_position)
         soff == StrengthOffset(pos, ReadInt(save_data, pos + PatternLength).v)
     IN  /\ pos # -1
         /\ ReadInt(save_data, soff) = [ok |-> TRUE, v |-> 0]
         /\ ReadInt(save_data, soff + 4) = [ok |-> TRUE, v |-> 0]

(***************************************************************************)
(* C10: a character whose strength and intelligence are both read as 0 has *)
(* no byte written, draws no random value, adds nothing to                 *)
(* total_skills_added and is not counted in characters_processed.          *)
(***************************************************************************)
C10_EmptySlot ==
  [][ReadsZeroStats =>
       /\ save_data' = save_data
       /\ files' = files
       /\ draws' = 0
       /\ total_skills_added' = total_skills_added
       /\ characters_processed' = characters_processed
       /\ pc' = "search"
       /\ expected_char_id' = expected_char_id + 1]_vars

\* the second character was an empty slot with bits set in its skill bytes,
\* after the first had skills added
C10_Witness ==
  /\ pc = "search"
  /\ expected_char_id = 3
  /\ total_characters = 2
  /\ strength = 0 /\ intelligence = 0
  /\ total_skills_added > 0
  /\ Get(save_data, SkillOffset(strength_offset, "personal")) # 0
(***************************************************************************)
(* The run as a function of the input file, the configuration, the catalog *)
(* and the values drawn: the same steps, taking the draws from a sequence. *)
(***************************************************************************)
\* how many values at the head of rest one call of _try_add_skill takes as
\* its choices; -1 when rest does not hold them
RECURSIVE PicksUsed(_, _, _, _, _)
PicksUsed(available, current, maxv, rest, limit) ==
  IF limit = 0 THEN 0
  ELSE IF rest = <<>> \/ rest[1] \notin DOMAIN available THEN -1
  ELSE IF ~Rejected(available[rest[1]], current, maxv) THEN 1
  ELSE LET n == PicksUsed(available, current, maxv, Tail(rest), limit - 1)
       IN  IF n = -1 THEN -1 ELSE n + 1

\* the while loop on a character state c, drawing from rest
RECURSIVE ReplayLoop(_, _)
ReplayLoop(c, rest) ==
  IF ~(c.consecutive_failures < reroll_limit) THEN [ok |-> TRUE, char |-> c, rest |-> rest]
  ELSE IF rest = <<>> THEN [ok |-> FALSE, char |-> c, rest |-> rest]
  ELSE
    LET personal == ChoosesPersonal(rest[1], c.strength)
        t == IF personal THEN "personal"
             ELSE IF Len(rest) >= 2 /\ rest[2] = 0 THEN "marshal" ELSE "commander"
        after == IF personal THEN Tail(rest) ELSE Tail(Tail(rest))
        available == AvailableSkills(catalog[t], c.active_skills[t])
        n == IF available = <<>> THEN 0
             ELSE PicksUsed(available, c.current_attribute_value, c.max_attribute_value,
                            after, pick_limit)
        r == TryAddSkill(catalog[t], c.skill_bytes[t], c.active_skills[t],
                         c.current_attribute_value, c.max_attribute_value,
                         SubSeq(after, 1, n))
        next == [c EXCEPT
                   !.skill_bytes[t] = r.bytes,
                   !.active_skills[t] = r.active,
                   !.added_skills[t] = IF r.added THEN Append(@, r.active[Len(r.active)])
                                       ELSE @,
                   !.consecutive_failures = NextFailures(@, r.added),
                   !.current_attribute_value = NextAttribute(@, r.added, r.active)]
        left == SubSeq(after, n + 1, Len(after))
    IN  IF (~personal /\ Len(rest) < 2) \/ n = -1 THEN [ok |-> FALSE, char |-> c, rest |-> rest]
        ELSE IF AllSkillsAdded(next.active_skills) THEN [ok |-> TRUE, char |-> next, rest |-> left]
        ELSE ReplayLoop(next, left)

\* the state of a run before character 1
ReplayStart ==
  [status |-> "run", save_data |-> input_data, total_skills_added |-> 0,
   total_characters |-> 0, characters_processed |-> 0, search_position |-> StartPosition,
   rest |-> tape.values,
   char |-> [strength |-> 0, intelligence |-> 0, strength_offset |-> 0,
             skill_bytes |-> NoSkills, active_skills |-> NoSkills, added_skills |-> NoSkills,
             current_attribute_value |-> 0, max_attribute_value |-> 0,
             consecutive_failures |-> 0]]

\* one pass of the character loop for id n on the run state R
ReplayChar(R, n) ==
  LET pattern_pos == FindPattern(R.save_data, n, R.search_position)
      skip == ReadInt(R.save_data, pattern_pos + PatternLength)
      soff == StrengthOffset(pattern_pos, skip.v)
      str == ReadInt(R.save_data, soff)
      int == ReadInt(R.save_data, soff + 4)
      s == EffectiveStat(str.v, int.v, str.v)
      i == EffectiveStat(str.v, int.v, int.v)
      bytes == [t \in SkillTypes |-> ExtractBytes(R.save_data, SkillOffset(soff, t), catalog[t])]
      active == [t \in SkillTypes |-> Decode(bytes[t], catalog[t])]
      current == InitialAttribute(s, i, R.rest[1],
                                  ActiveSkillValue(active["marshal"], active["commander"],
                                                   active["personal"]))
      c == [strength |-> s, intelligence |-> i, strength_offset |-> soff,
            skill_bytes |-> bytes, active_skills |-> active, added_skills |-> NoSkills,
            current_attribute_value |-> current, max_attribute_value |-> MaxAttribute(current),
            consecutive_failures |-> 0]
      loop == ReplayLoop(c, Tail(R.rest))
      w == WriteSkillBytes(R.save_data, soff, loop.char.skill_bytes)
      found == [R EXCEPT !.total_characters = @ + 1,
                         !.search_position = AdvanceCursor(pattern_pos)]
  IN  IF pattern_pos = -1
      THEN IF n = 1 THEN [R EXCEPT !.status = "fail"] ELSE R
      ELSE IF ~skip.ok \/ ~str.ok \/ ~int.ok THEN [R EXCEPT !.status = "fail"]
      ELSE IF IsEmptySlot(str.v, int.v)
      THEN [found EXCEPT !.char.strength = str.v, !.char.intelligence = int.v,
                         !.char.strength_offset = soff]
      ELSE IF \E t \in SkillTypes : catalog[t] = <<>> THEN [R EXCEPT !.status = "fail"]
      ELSE IF R.rest = <<>> THEN [R EXCEPT !.status = "short"]
      ELSE IF RateMissing(current) THEN [R EXCEPT !.status = "fail", !.rest = Tail(@)]
      ELSE IF ~loop.ok THEN [R EXCEPT !.status = "short"]
      ELSE IF ~w.ok
      THEN [found EXCEPT !.status = "fail", !.save_data = w.buf, !.char = loop.char,
                         !.rest = loop.rest]
      ELSE [found EXCEPT
              !.save_data = w.buf, !.char = loop.char, !.rest = loop.rest,
              !.total_skills_added = @ + CharSkillsAdded(loop.char.added_skills),
              !.characters_processed =
                 IF CharSkillsAdded(loop.char.added_skills) > 0 THEN @ + 1 ELSE @]

\* ids n..upto in turn, until one fails
RECURSIVE ReplayFrom(_, _, _)
ReplayFrom(R, n, upto) ==
  IF n > upto \/ R.status # "run" THEN R ELSE ReplayFrom(ReplayChar(R, n), n + 1, upto)

\* the run is where the function of its input and of its tape puts it
Replayed ==
  LET upto == IF pc = "done" THEN Min(expected_char_id, last_character_number)
              ELSE expected_char_id - 1
      R == ReplayFrom(ReplayStart, 1, upto)
  IN  /\ R.rest = <<>>
      /\ R.status = (IF Failed THEN "fail" ELSE "run")
      /\ R.save_data = save_data
      /\ R.total_skills_added = total_skills_added
      /\ R.total_characters = total_characters
      /\ R.characters_processed = characters_processed
      /\ R.search_position = search_position
      /\ R.char = [strength |-> strength, intelligence |-> intelligence,
                   strength_offset |-> strength_offset, skill_bytes |-> skill_bytes,
                   active_skills |-> active_skills, added_skills |-> added_skills,
                   current_attribute_value |-> current_attribute_value,
                   max_attribute_value |-> max_attribute_value,
                   consecutive_failures |-> consecutive_failures]
      /\ Succeeded =>
           /\ result = <<R.total_characters, R.characters_processed, R.total_skills_added>>
           /\ files[OutputPath(save_file, output_file)] = R.save_data

(***************************************************************************)
(* C11: determinism: the tier of every character (max_attribute_value is   *)
(* the ceiling of that tier), the active skills, the buffer, the output    *)
(* and the statistics of a run are a function of the input buffer, the     *)
(* configuration, the catalog and the sequence of values drawn, so two     *)
(* runs that agree on these agree on all of them.                          *)
(***************************************************************************)
C11_Determinism == (tape.on /\ pc \in {"search", "done"}) => Replayed

\* a run that drew at least six values and added skills to two characters
C11_Witness ==
  /\ Succeeded
  /\ tape.on
  /\ Len(tape.values) >= 6
  /\ result[2] = 2

\* the inputs of the single-skill scenario
SingleSkillRun ==
  /\ pc # "start"
  /\ input_data = SingleSkillFile
  /\ catalog = SingleSkillCatalog
  /\ pick_limit = 5
  /\ reroll_limit = 3

(***************************************************************************)
(* C12: the single-skill run succeeds for every sequence of draws, and the *)
(* byte at the personal bitfield offset of the output is 1 if skill 0 was  *)
(* added and 0 otherwise.                                                  *)
(***************************************************************************)
C12_SingleSkill ==
  (SingleSkillRun /\ pc = "done") =>
     /\ Succeeded
     /\ Get(files[OutputPath(save_file, output_file)],
            SkillOffset(StrengthOffset(FirstPosition, 0), "personal"))
          = (IF result[3] = 1 THEN 1 ELSE 0)

\* attribute values around every tier boundary, in hundredths
TierProbes == {0, 4999, 5000, 9999, 10000, 12999, 13000, 18999, 19000, 21999, 22000, 30000}

(***************************************************************************)
(* C13: after load_config has read any sequence of lines,                  *)
(* len(attribute_rates) = len(attribute_thresholds) + 1, and the tier      *)
(* index computed for any attribute value is an index of attribute_rates.  *)
(***************************************************************************)
C13_LengthInvariant ==
  load_pc = "loaded" =>
    /\ Len(self_attribute_rates) = Len(self_attribute_thresholds) + 1
    /\ \A current \in TierProbes :
         RateIndexOf(self_attribute_thresholds, current) + 1 \in DOMAIN self_attribute_rates

\* load_config is reading an attribute_rates line whose list has not one item
\* more than the thresholds of the moment
ReadsWrongLengthRates ==
  /\ load_pc = "reading"
  /\ line_number < Len(config_lines)
  /\ LET line == config_lines[line_number + 1]
     IN  /\ line.key = "attribute_rates"
         /\ line.value.kind = "list"
         /\ Len(line.value.items) # Len(self_attribute_thresholds) + 1

(***************************************************************************)
(* C14: an attribute_rates line whose list has not                         *)
(* len(attribute_thresholds) + 1 items when it is read sets                *)
(* attribute_rates to [1.4, 1.25, 1.1, 1.0, 0.9] and prints a warning;     *)
(* load_config goes on with the next line, does not fail, and leaves the   *)
(* other settings alone.                                                   *)
(***************************************************************************)
C14_WrongLengthRates ==
  [][ReadsWrongLengthRates =>
       /\ self_attribute_rates' = <<140, 125, 110, 100, 90>>
       /\ warnings' = warnings + 1
       /\ load_pc' = "reading"
       /\ line_number' = line_number + 1
       /\ UNCHANGED <<self_attribute_thresholds, pick_limit>>]_vars

\* a file of three lines was read to its end: two thresholds, then two rates
\* (one too few), then pick_limit
C14_Witness ==
  /\ load_pc = "loaded"
  /\ config_lines = <<TwoThresholds, TwoRates, Line("pick_limit", NumberValue(1))>>
  /\ pick_limit = 1
  /\ warnings = 1
  /\ self_attribute_rates = <<140, 125, 110, 100, 90>>

\* a field of the record whose strength is at soff lies outside the buffer:
\* the stats, or a byte of a category's bitfield
FieldOutside(soff) ==
  \/ soff + 8 > save_data.len
  \/ \E t \in SkillTypes :
       catalog[t] # <<>> /\ SkillOffset(soff, t) + CeilBytes(catalog[t]) > save_data.len

\* the character being handled was found and has a field outside the buffer
PendingFieldOutside ==
  \/ /\ pc = "search"
     /\ expected_char_id <= last_character_number
     /\ LET pos == FindPattern(save_data, expected_char_id, search_position)
            skip == ReadInt(save_data, pos + PatternLength)
        IN  pos # -1 /\ (~skip.ok \/ FieldOutside(StrengthOffset(pos, skip.v)))
  \/ pc \in {"loop", "write"} /\ FieldOutside(strength_offset)

(***************************************************************************)
(* C15: when a field of a found character (its skip count, a stat, a byte  *)
(* of a bitfield) lies outside the buffer, the run does not go on to the   *)
(* next id, and ends with a failure, whether or not a skill was added.     *)
(***************************************************************************)
C15_FatalFieldRead ==
  [][PendingFieldOutside =>
       /\ expected_char_id' = expected_char_id
       /\ pc' = "done" => result' = Failure]_vars

(***************************************************************************)
(* The templates, byte by byte.                                            *)
(***************************************************************************)
\* the bytes of buf from offset i on are those of bytes
BytesAt(buf, i, bytes) ==
  \A k \in DOMAIN bytes : i + k - 1 < buf.len /\ Get(buf, i + k - 1) = bytes[k]

\* the two low bytes of an id, low byte first
IdBytes(n) == <<n % 256, (n \div 256) % 256>>

\* the strict template of id n is at offset i
TemplateAt(buf, i, n) ==
  /\ BytesAt(buf, i, IdBytes(n))
  /\ BytesAt(buf, i + 4, <<77, 97, 114, 107, 0>>)
  /\ BytesAt(buf, i + 9, IdBytes(n))
  /\ BytesAt(buf, i + 13, <<77, 97, 114, 107, 0, 0, 0, 0, 0>>)

\* the relaxed template of id n is at offset i
RelaxedAt(buf, i, n) ==
  /\ BytesAt(buf, i, IdBytes(n))
  /\ \/ BytesAt(buf, i + 4, <<77, 97, 114, 107, 0>>)
     \/ BytesAt(buf, i + 13, <<77, 97, 114, 107, 0>>)
  /\ \E j \in (i + 2)..(i + 19) : BytesAt(buf, j, IdBytes(n))

\* the offsets searched for the id being handled: from 0x20000 to near the end
\* of the buffer for id 1, 1200 offsets from the cursor (fewer near the end of
\* the buffer) for the others
SearchRange ==
  IF expected_char_id = 1 THEN 131072..(save_data.len - 26)
  ELSE search_position..(Min(search_position + 1200, save_data.len - 25) - 1)

StrictHits == {i \in SearchRange : TemplateAt(save_data, i, expected_char_id)}
RelaxedHits == {i \in SearchRange : RelaxedAt(save_data, i, expected_char_id)}

\* the character loop is about to handle an id
Searching == pc = "search" /\ expected_char_id <= last_character_number

\* the signed 32-bit integer stored low byte first at offset i
SignedAt(buf, i) ==
  Get(buf, i) + 256 * Get(buf, i + 1) + 65536 * Get(buf, i + 2)
    + 16777216 * (IF Get(buf, i + 3) >= 128 THEN Get(buf, i + 3) - 256 ELSE Get(buf, i + 3))

LastOffset == char_offsets[Len(char_offsets)]

(***************************************************************************)
(* C16: the strict pass reports the smallest offset of the range searched  *)
(* at which the strict template of the id is, and nothing exactly when the *)
(* template is nowhere in the range; the offset it reports is the one the  *)
(* record is taken to be at.                                               *)
(***************************************************************************)
C16_StrictScan ==
  /\ [](Searching =>
          LET p == StrictSearch(save_data, search_position,
                                max_search_position(save_data, expected_char_id,
                                                    search_position),
                                char_id_bytes(expected_char_id))
          IN  IF StrictHits = {} THEN p = -1 ELSE p = SetMin(StrictHits))
  /\ [][(Searching /\ StrictHits # {})
          => char_offsets' = Append(char_offsets, SetMin(StrictHits))]_vars

\* id 1 was found at its template, which has bytes at i+2 and i+11 and comes
\* after a near-match and before another template
C16_Witness ==
  /\ pc = "search"
  /\ expected_char_id = 2
  /\ char_offsets = <<131072 + 40>>
  /\ Get(save_data, 131072 + 42) = 7
  /\ TemplateAt(save_data, 131072 + 300, 1)

(***************************************************************************)
(* C17: a record of an id > 1 is found only at an offset i with            *)
(* c <= i < c + 1200, c being the offset of the record found before it     *)
(* plus 900, and with the 22 bytes of the template inside the buffer; the  *)
(* records found are at increasing offsets, at least 900 apart.            *)
(***************************************************************************)
C17_BoundedWindow ==
  /\ \A k \in 2..Len(char_offsets) :
       /\ char_offsets[k - 1] + 900 <= char_offsets[k]
       /\ char_offsets[k] < char_offsets[k - 1] + 900 + 1200
       /\ char_offsets[k] + 22 <= save_data.len
  /\ (Searching /\ expected_char_id > 1 /\ char_offsets # <<>>) =>
       LET p == FindPattern(save_data, expected_char_id, search_position)
       IN  p # -1 => (LastOffset + 900 <= p /\ p < LastOffset + 900 + 1200
                      /\ p + 22 <= save_data.len)

\* id 2 was found at the last offset of its window
C17_Witness ==
  /\ Len(char_offsets) = 2
  /\ char_offsets[2] = char_offsets[1] + 900 + 1199

(***************************************************************************)
(* C18: the cursor is 0x20000 until a record is found and then the offset  *)
(* of the last record found plus 900, also when that record is an empty    *)
(* slot; an id > 1 that is not found leaves the cursor, the buffer and the *)
(* statistics alone and the loop goes on with the next id; the cursor      *)
(* never decreases.                                                        *)
(***************************************************************************)
C18_SearchCursor ==
  /\ [](pc \in {"search", "loop", "write"} =>
          search_position = (IF char_offsets = <<>> THEN 131072 ELSE LastOffset + 900))
  /\ [][(Searching /\ expected_char_id > 1 /\ StrictHits = {}) =>
          /\ expected_char_id' = expected_char_id + 1
          /\ pc' = "search"
          /\ UNCHANGED <<search_position, save_data, char_offsets, total_characters,
                         characters_processed, total_skills_added>>]_vars
  /\ [][search_position' >= search_position]_vars

\* id 1 was an empty slot and id 2 was not found
C18_Witness ==
  /\ pc = "search"
  /\ expected_char_id = 3
  /\ Len(char_offsets) = 1
  /\ total_characters = 1
  /\ characters_processed = 0
  /\ strength = 0 /\ intelligence = 0
  /\ search_position = char_offsets[1] + 900

(***************************************************************************)
(* C19: the relaxed pass is used for id 1 only, and only when the strict   *)
(* template is nowhere in the range: it then finds the smallest offset     *)
(* with the id bytes, 'Mark\0' at i+4 or at i+13 and the id bytes again    *)
(* within the next 20 bytes; when it finds nothing the run fails and no    *)
(* id > 1 is handled.                                                      *)
(***************************************************************************)
C19_RelaxedFallback ==
  /\ [](Searching =>
          LET p == FindPattern(save_data, expected_char_id, search_position)
          IN  IF StrictHits # {} THEN p = SetMin(StrictHits)
              ELSE IF expected_char_id = 1 /\ RelaxedHits # {} THEN p = SetMin(RelaxedHits)
              ELSE p = -1)
  /\ [][(Searching /\ expected_char_id = 1 /\ StrictHits = {}) =>
          IF RelaxedHits = {}
          THEN /\ pc' = "done"
               /\ result' = Failure
               /\ expected_char_id' = 1
               /\ UNCHANGED <<char_offsets, save_data, files>>
          ELSE char_offsets' = <<SetMin(RelaxedHits)>>]_vars
  /\ [][(Searching /\ expected_char_id > 1 /\ StrictHits = {})
          => char_offsets' = char_offsets]_vars

\* id 1 was found by the relaxed pass at the first of two relaxed matches, and
\* the relaxed match of id 2 in its window was not taken
C19_Witness ==
  /\ pc = "search"
  /\ expected_char_id = 3
  /\ char_offsets = <<131072 + 50>>
  /\ ~TemplateAt(save_data, 131072 + 50, 1)
  /\ RelaxedAt(save_data, 131072 + 100, 1)
  /\ RelaxedAt(save_data, 131072 + 50 + 900 + 5, 2)

(***************************************************************************)
(* C20: for a record found at r with skip count s (the signed integer at   *)
(* r+22), the strength is read at r+26+4*s when s > 0 and at r+26          *)
(* otherwise, the intelligence 4 bytes further, and the bytes of the       *)
(* personal, commander and marshal skills at strength offset + 0x28C,      *)
(* + 0x29C and + 0x2AC.                                                    *)
(***************************************************************************)
C20_FieldOffsets ==
  /\ (pc \in {"search", "loop", "write"} /\ char_offsets # <<>>) =>
       LET s == SignedAt(save_data, LastOffset + 22)
       IN  /\ strength_offset = LastOffset + 26 + (IF s > 0 THEN 4 * s ELSE 0)
           /\ strength = SignedAt(save_data, strength_offset)
           /\ intelligence = SignedAt(save_data, strength_offset + 4)
  /\ JustDecoded =>
       /\ BytesAt(save_data, strength_offset + 652, skill_bytes["personal"])
       /\ BytesAt(save_data, strength_offset + 668, skill_bytes["commander"])
       /\ BytesAt(save_data, strength_offset + 684, skill_bytes["marshal"])

\* a record with skip count 2 and skill bits set has just been decoded
C20_Witness ==
  /\ JustDecoded
  /\ SignedAt(save_data, LastOffset + 22) = 2
  /\ strength_offset = LastOffset + 34
  /\ skill_bytes["personal"] = <<129>>
  /\ skill_bytes["marshal"] = <<4>>

(***************************************************************************)
(* The values a pass of the while loop draws, as recorded.                 *)
(***************************************************************************)
\* the values drawn by the step, in order
StepDraws == SubSeq(tape'.values, Len(tape.values) + 1, Len(tape'.values))

\* a pass of the while loop whose draws are recorded
RecordedPass == LoopPass /\ tape.on

\* floor(maxRandom) for the statistics the loop uses
FloorMaxRandom == (strength * str_random_rate + intelligence * int_random_rate) \div 100

(***************************************************************************)
(* C21: in every pass of the allocation loop the first value drawn,        *)
(* randomValue, is in [0, max(1, floor(maxRandom)) - 1], also when         *)
(* floor(maxRandom) <= 1.                                                  *)
(***************************************************************************)
C21_DrawRange ==
  [][RecordedPass => StepDraws[1] \in 0..(Max(1, FloorMaxRandom) - 1)]_vars

\* the step changed nothing of category t
Untouched(t) ==
  /\ skill_bytes'[t] = skill_bytes[t]
  /\ active_skills'[t] = active_skills[t]
  /\ added_skills'[t] = added_skills[t]

\* the values of StepDraws from index from on are at most pick_limit picks
\* among the skills of category t that can be picked, at least one when there
\* is a skill to pick and a pick to make
PicksFrom(t, from) ==
  LET n == Len(AvailableSkills(catalog[t], active_skills[t]))
      made == Len(StepDraws) - (from - 1)
  IN  /\ made \in 0..pick_limit
      /\ \A k \in from..Len(StepDraws) : StepDraws[k] \in 1..n
      /\ (n > 0 /\ pick_limit > 0) => made >= 1
      /\ \A u \in SkillTypes \ {t} : Untouched(u)

(***************************************************************************)
(* C22: every pass attempts one category: personal exactly when            *)
(* randomValue < strength * strRandomRate, and then no second value is     *)
(* drawn before the picks; otherwise a second value is drawn from {0,1,2}  *)
(* and the category is marshal when it is 0, commander when it is 1 or 2.  *)
(***************************************************************************)
C22_CategoryChoice ==
  [][RecordedPass =>
       IF StepDraws[1] * 100 < strength * str_random_rate
       THEN PicksFrom("personal", 2)
       ELSE /\ Len(StepDraws) >= 2
            /\ StepDraws[2] \in 0..2
            /\ PicksFrom(IF StepDraws[2] = 0 THEN "marshal" ELSE "commander", 3)]_vars

\* a pass drew 2 with strength 2, then 2, and added the commander skill
C22_Witness ==
  /\ tape.on
  /\ pc = "loop"
  /\ strength = 2
  /\ Len(tape.values) = 4
  /\ tape.values[2] = 2
  /\ tape.values[3] = 2
  /\ added_skills["commander"] # <<>>
  /\ added_skills["marshal"] = <<>>

\* the category the pass attempts, from the values it drew
Attempted ==
  IF StepDraws[1] * 100 < strength * str_random_rate THEN "personal"
  ELSE IF StepDraws[2] = 0 THEN "marshal" ELSE "commander"

\* the picks of the pass: the values drawn after the category was chosen
StepPicks ==
  SubSeq(StepDraws, (IF Attempted = "personal" THEN 2 ELSE 3), Len(StepDraws))

\* bytes b holds bytes a, lengthened with zeros where needed, with the bit of
\* id set and no other bit changed
OneBitSet(a, b, id) ==
  LET ByteOf(x, k) == IF k <= Len(x) THEN x[k] ELSE 0
  IN  /\ Len(b) = Max(Len(a), id \div 8 + 1)
      /\ \A k \in 1..Len(b) : \A bit \in 0..7 :
           BitSet(b[k], bit) <=>
             (BitSet(ByteOf(a, k), bit) \/ (k = id \div 8 + 1 /\ bit = id % 8))

(***************************************************************************)
(* C23: one call of _try_add_skill makes at most pick_limit picks among    *)
(* the skills of the category that are not active and have value # -1; it  *)
(* adds the first pick whose value is <= max_attribute_value -             *)
(* current_attribute_value and picks no more; it fails when there is no    *)
(* such skill to pick or when all pick_limit picks are rejected, and then  *)
(* leaves the skill bytes and the active set of the category unchanged.    *)
(***************************************************************************)
C23_TryAddSkill ==
  [][RecordedPass =>
       LET t == Attempted
           NotActive(skill) == skill \notin Range(active_skills[t]) /\ skill.value # -1
           available == SelectSeq(catalog[t], NotActive)
           room == max_attribute_value - current_attribute_value
           Fits(k) == available[StepPicks[k]].value * 100 <= room
           fitting == {k \in DOMAIN StepPicks : Fits(k)}
       IN  /\ Len(StepPicks) <= pick_limit
           /\ \A k \in DOMAIN StepPicks : StepPicks[k] \in DOMAIN available
           /\ IF fitting = {}
              THEN /\ Len(StepPicks) = (IF available = <<>> THEN 0 ELSE pick_limit)
                   /\ Untouched(t)
                   /\ consecutive_failures' = consecutive_failures + 1
              ELSE LET skill == available[StepPicks[Len(StepPicks)]]
                   IN  /\ fitting = {Len(StepPicks)}
                       /\ active_skills'[t] = Append(active_skills[t], skill)
                       /\ added_skills'[t] = Append(added_skills[t], skill)
                       /\ OneBitSet(skill_bytes[t], skill_bytes'[t], skill.id)
                       /\ consecutive_failures' = 0]_vars

\* a call picked the personal skill of value 200, rejected it, picked the one
\* of value 164 and added it
C23_Witness ==
  /\ tape.on
  /\ pc = "loop"
  /\ strength = 2
  /\ Len(tape.values) = 4
  /\ tape.values[2] < 2
  /\ tape.values[3] = 1
  /\ tape.values[4] = 2
  /\ added_skills["personal"] = <<Skill(1, 164)>>

(***************************************************************************)
(* C24: when the loop is reached for a character, current_attribute_value  *)
(* is strength * str_rate + intelligence * int_rate + random_extra + the   *)
(* sum of value * exist_attribute_rate over the skills decoded as active,  *)
(* with random_extra drawn in random_extra_attribute_min ..                *)
(* random_extra_attribute_max, and max_attribute_value is (233 +           *)
(* extra_attribute) * attribute_rates[k], k being the smallest index with  *)
(* current_attribute_value < attribute_thresholds[k], or                   *)
(* len(attribute_thresholds) when there is none.  Values in hundredths.    *)
(***************************************************************************)
C24_BudgetInit ==
  [][(pc = "search" /\ pc' = "loop" /\ tape.on) =>
       LET random_extra == tape'.values[Len(tape'.values)]
           active == active_skills'["marshal"] \o active_skills'["commander"]
                       \o active_skills'["personal"]
           current == strength' * 150 + intelligence' * 100 + random_extra * 100
                        + SeqSum([j \in DOMAIN active |-> active[j].value * 70])
           below == {k \in 0..(Len(self_attribute_thresholds) - 1) :
                       current < self_attribute_thresholds[k + 1] * 100}
           k == IF below = {} THEN Len(self_attribute_thresholds) ELSE SetMin(below)
       IN  /\ Len(tape'.values) = Len(tape.values) + 1
           /\ random_extra \in random_extra_attribute_min..random_extra_attribute_max
           /\ current_attribute_value' = current
           /\ max_attribute_value' = (233 + 30) * self_attribute_rates[k + 1]]_vars

\* a character with an active personal skill reached the loop in the third
\* tier of the default thresholds
C24_Witness ==
  /\ tape.on
  /\ JustDecoded
  /\ active_skills["personal"] # <<>>
  /\ self_attribute_thresholds = <<100, 130, 160, 190>>
  /\ current_attribute_value >= 13000
  /\ max_attribute_value = 263 * 110

\* the strength offset of the record found at r, from the bytes read
FieldsOf(r) ==
  LET skip == SignedAt(input_data, r + 22)
  IN  r + 26 + (IF skip > 0 THEN 4 * skip ELSE 0)

\* offset of the byte that holds the bit of id in category t of the record at r
BitByte(r, t, id) ==
  FieldsOf(r) + id \div 8
    + (CASE t = "personal" -> 652 [] t = "commander" -> 668 [] t = "marshal" -> 684)

\* the bit of every disabled skill of every record found is in buf as it is in
\* the input
DisabledBitsAsRead(buf) ==
  \A r \in Range(char_offsets) : \A t \in SkillTypes : \A skill \in Range(catalog[t]) :
    (skill.value = -1 /\ BitByte(r, t, skill.id) < input_data.len) =>
      /\ BitByte(r, t, skill.id) < buf.len
      /\ BitSet(Get(buf, BitByte(r, t, skill.id)), skill.id % 8)
           <=> BitSet(Get(input_data, BitByte(r, t, skill.id)), skill.id % 8)

RecordFound == pc = "search" /\ Len(char_offsets') = Len(char_offsets) + 1

\* the statistics of the record found by the step, as stored
RawStrength == SignedAt(save_data, FieldsOf(char_offsets'[Len(char_offsets')]))
RawIntelligence == SignedAt(save_data, FieldsOf(char_offsets'[Len(char_offsets')]) + 4)

\* x brought into [0, 1000]
Into(x) == IF x < 0 THEN 0 ELSE IF x > 1000 THEN 1000 ELSE x

(***************************************************************************)
(* C26: a record whose statistics are not both 0 is processed whatever     *)
(* their values: outside [20, 300] they are used as they are, outside      *)
(* [0, 1000] they are brought into [0, 1000] before they are used in       *)
(* current_attribute_value, in max_random and in the category test; the    *)
(* run is not stopped and the character is not skipped.                    *)
(***************************************************************************)
C26_StatClasses ==
  /\ [][(/\ RecordFound
         /\ FieldsOf(char_offsets'[Len(char_offsets')]) + 8 <= save_data.len
         /\ ~(RawStrength = 0 /\ RawIntelligence = 0)
         /\ Len(self_attribute_rates) = Len(self_attribute_thresholds) + 1) =>
          /\ pc' = "loop"
          /\ strength' = Into(RawStrength)
          /\ intelligence' = Into(RawIntelligence)
          /\ tape.on =>
               current_attribute_value' =
                 Into(RawStrength) * 150 + Into(RawIntelligence) * 100
                   + tape'.values[Len(tape'.values)] * 100
                   + ActiveSkillValue(active_skills'["marshal"], active_skills'["commander"],
                                      active_skills'["personal"])]_vars
  /\ [][RecordedPass =>
          /\ strength = Into(SignedAt(save_data, strength_offset))
          /\ intelligence = Into(SignedAt(save_data, strength_offset + 4))
          /\ StepDraws[1] \in 0..Max(1, strength + intelligence - 1)
          /\ Attempted = "personal" <=> StepDraws[1] < strength]_vars

\* a record with strength 1001 and intelligence -2 has made a pass of the loop
\* with 1000 and 0, drawing a value above 500
C26_Witness ==
  /\ tape.on
  /\ pc = "loop"
  /\ SignedAt(save_data, strength_offset) = 1001
  /\ SignedAt(save_data, strength_offset + 4) = -2
  /\ strength = 1000
  /\ intelligence = 0
  /\ Len(tape.values) >= 2
  /\ tape.values[2] > 500

\* the number of skills added to the character being processed
AddedNow == Len(added_skills["marshal"]) + Len(added_skills["commander"])
              + Len(added_skills["personal"])

(***************************************************************************)
(* C27: total_characters counts the ids whose record was found, empty      *)
(* slots included; characters_processed counts the characters that had at  *)
(* least one skill added and total_skills_added the skills added; a        *)
(* successful run returns the three; and characters_processed <=           *)
(* total_characters <= last_character_number and characters_processed <=   *)
(* total_skills_added hold throughout.                                     *)
(***************************************************************************)
C27_Statistics ==
  /\ [](/\ characters_processed <= total_characters
        /\ total_characters <= last_character_number
        /\ characters_processed <= total_skills_added)
  /\ [](pc \in {"search", "loop", "write"} => total_characters = Len(char_offsets))
  /\ [](Succeeded => result = <<Len(char_offsets), characters_processed, total_skills_added>>)
  /\ [][IF StoredBack
        THEN /\ total_skills_added' = total_skills_added + AddedNow
             /\ characters_processed' = characters_processed + (IF AddedNow > 0 THEN 1 ELSE 0)
        ELSE UNCHANGED <<total_skills_added, characters_processed>>]_vars
  /\ [][(pc = "search" /\ pc' = "loop") => AddedNow' = 0]_vars
  /\ [][LoopPass =>
          \A t \in SkillTypes :
            /\ Len(added_skills'[t]) - Len(added_skills[t])
                 = Len(active_skills'[t]) - Len(active_skills[t])
            /\ Len(added_skills'[t]) - Len(added_skills[t]) \in {0, 1}]_vars

\* a run found two records, added two skills or more to one of them and none
\* to the other
C27_Witness ==
  /\ Succeeded
  /\ Len(char_offsets) = 2
  /\ result[1] = 2
  /\ result[2] = 1
  /\ result[3] >= 2

\* the offsets at which buf differs from the input
Changed(buf) ==
  {p \in DOMAIN buf.nz \cup DOMAIN input_data.nz : Get(buf, p) # Get(input_data, p)}

\* the record found at r has statistics (0, 0) in the input
EmptyAt(r) ==
  SignedAt(input_data, FieldsOf(r)) = 0 /\ SignedAt(input_data, FieldsOf(r) + 4) = 0

\* the bytes of the bitfield of category t of the record found at r
FieldRange(r, t) ==
  BitByte(r, t, 0)..(BitByte(r, t, 0) + CeilBytes(catalog[t]) - 1)

\* the signature and the skip count of the record found at r, and its
\* strength and intelligence
HeaderRange(r) == (r..(r + 25)) \cup (FieldsOf(r)..(FieldsOf(r) + 7))

\* every changed byte is in a bitfield of a record found that is not empty
InsideFields(buf) ==
  \A p \in Changed(buf) :
    \E r \in Range(char_offsets) : \E t \in SkillTypes : ~EmptyAt(r) /\ p \in FieldRange(r, t)

\* no byte of a signature, a skip count or a statistic is changed
HeadersKept(buf) ==
  \A r \in Range(char_offsets) : HeaderRange(r) \cap Changed(buf) = {}

(***************************************************************************)
(* C28: every byte of the output that differs from the input is in one of  *)
(* the three bitfield ranges [offset, offset + ceil((max id + 1) / 8)) of  *)
(* a record that was found and had statistics other than (0, 0); the       *)
(* signature, skip count, strength and intelligence bytes of every record  *)
(* are unchanged.  The same of the buffer during the run.                  *)
(***************************************************************************)
C28_Frame ==
  /\ (pc \in {"search", "loop", "write"}) =>
       InsideFields(save_data) /\ HeadersKept(save_data)
  /\ Succeeded =>
       /\ InsideFields(files[OutputPath(save_file, output_file)])
       /\ HeadersKept(files[OutputPath(save_file, output_file)])

\* the bit positions that are 0 in the input and 1 in buf
BitsSet(buf) ==
  {pb \in Changed(buf) \X (0..7) :
     ~BitSet(Get(input_data, pb[1]), pb[2]) /\ BitSet(Get(buf, pb[1]), pb[2])}

(***************************************************************************)
(* C29: on success total_skills_added is the number of bit positions that  *)
(* are 0 in the input and 1 in the output; no skill whose bit is set in    *)
(* the buffer is added.                                                    *)
(***************************************************************************)
C29_CountMatchesBuffer ==
  /\ [](Succeeded =>
          total_skills_added
            = Cardinality(BitsSet(files[OutputPath(save_file, output_file)])))
  /\ [][PassAdded =>
          \A t \in SkillTypes :
            added_skills'[t] # added_skills[t] =>
              LET skill == added_skills'[t][Len(added_skills'[t])]
              IN  ~BitSet(Get(save_data, BitByte(LastOffset, t, skill.id)), skill.id % 8)]_vars

(***************************************************************************)
(* C30: the allocation loop never runs with strength and intelligence both *)
(* 0: the values it uses, brought into [0, 1000], are not both 0, also for *)
(* a character whose stored statistics are negative.                       *)
(***************************************************************************)
C30_NeverBothZero ==
  pc \in {"loop", "write"} => ~(strength = 0 /\ intelligence = 0)

====
